---- MODULE Spec2Model ----
(***************************************************************************)
(* Model of AskForHelpHandler (src/src/ask_for_help_bot/handler.py): the   *)
(* rule table of the intent router, the per-user conversation context, the *)
(* button payload cache and the handlers of the question, answer and       *)
(* report flows, together with the handlers of the pushes of the task      *)
(* service.  One user is modelled; a turn (one handler call) is one step.  *)
(***************************************************************************)
EXTENDS Integers, Sequences, FiniteSets, TLC

\* ------------------------------------------------------------------ bounds

\* Number of correlation keys (uuid4 draws) handed out in a behaviour of Spec.
MaxKeys == 5

\* Number of correlation keys handed out in a behaviour of SpecQuestion.
MaxKeysQuestion == 3

\* Number of correlation keys handed out in a behaviour of SpecRace.
MaxKeysRace == 4

\* Number of correlation keys handed out in a behaviour of SpecAnswer.
MaxKeysAnswer == 8

\* Number of correlation keys handed out in a behaviour of SpecProposals.
MaxKeysProposals == 4

\* Number of is_first_answer calls in a behaviour of SpecFirstAnswer.
MaxFirstAnswerCalls == 6

\* Number of correlation keys handed out in a behaviour of SpecCancel.
MaxKeysCancel == 4

\* Number of correlation keys handed out in a behaviour of SpecTermination.
MaxKeysTermination == 3

\* Number of tasks of other users the task service can push or propose.
NTasks == 2

\* Free texts a user can send.
Texts == {"t1", "t2"}

\* Transaction ids the task service names in an answer-received push.
TransactionIds == {"tx1"}

TaskIds == 1..NTasks

\* The ids a click can name: every key a specification hands out, and 0, an
\* id that was never cached.
KeyIds == 0..(MaxKeys + MaxKeysQuestion + 1)

\* The attributes the task service holds for the tasks of other users.
TaskSensitive(t) == t % 2 = 1

TaskNearby(t) == (t \div 2) % 2 = 1

\* ------------------------------------------------------- names of the code

CONTEXT_CURRENT_STATE == "current_state"

CONTEXT_DESIRED_ANSWERER == "desired_answerer"

CONTEXT_DESIRED_ANSWERER_REASON == "desired_answerer_reason"

CONTEXT_SENSITIVE_QUESTION == "sensitive_question"

CONTEXT_ANONYMOUS_QUESTION == "anonymous_question"

CONTEXT_ASKED_QUESTION == "asked_question"

CONTEXT_ANSWER_TO_QUESTION == "answer_to_question"

CONTEXT_QUESTION_TO_ANSWER == "question_to_answer"

CONTEXT_MESSAGE_TO_REPORT == "message_to_report"

CONTEXT_REPORTING_IS_QUESTION == "reporting_is_question"

CONTEXT_REPORTING_REASON == "reporting_reason"

CONTEXT_ORIGINAL_QUESTION_REPORTING == "original_question_reporting"

CONTEXT_PROPOSED_TASKS == "proposed_tasks"

CONTEXT_PENDING_ANSWERS == "pending_answers"

INTENT_QUESTION == "/question"

INTENT_QUESTION_FIRST == "/question_first"

INTENT_ASK_TO_DIFFERENT == "ask_to_different"

INTENT_ASK_TO_SIMILAR == "ask_to_similar"

INTENT_ASK_TO_ANYONE == "ask_to_anyone"

INTENT_ASK_TO_NEARBY == "nearby"

INTENT_ASK_TO_ANYWHERE == "anywhere"

INTENT_ANSWER_ANONYMOUSLY == "answer_anonymously"

INTENT_ANSWER_NOT_ANONYMOUSLY == "answer_not_anonymously"

INTENT_SENSITIVE_QUESTION == "sensitive"

INTENT_NOT_SENSITIVE_QUESTION == "not_sensitive"

INTENT_ANONYMOUS_QUESTION == "anonymous"

INTENT_NOT_ANONYMOUS_QUESTION == "not_anonymous"

INTENT_ANSWER_QUESTION == "answer_question"

INTENT_ANSWER_REMIND_LATER == "answer_remind_later"

INTENT_ANSWER_NOT == "answer_not"

INTENT_QUESTION_REPORT == "question_report"

INTENT_REPORT_ABUSIVE == "abusive"

INTENT_REPORT_SPAM == "spam"

INTENT_ASK_MORE_ANSWERS == "ask_more_answers"

INTENT_ANSWER_REPORT == "answer_report"

INTENT_ANSWER == "/answer"

INTENT_ANSWER_PICKED_QUESTION == "picked_answer"

INTENT_BEST_ANSWER == "best_answer"

INTENT_PROFILE == "/profile"

STATE_QUESTION_1 == "question_1"

STATE_QUESTION_2 == "question_2"

STATE_QUESTION_3 == "question_3"

STATE_QUESTION_4 == "question_4"

STATE_QUESTION_4_1 == "question_4_1"

STATE_QUESTION_5 == "question_5"

STATE_ANSWERING == "answer_2"

STATE_ANSWERING_SENSITIVE == "answer_sensitive"

STATE_ANSWERING_ANONYMOUSLY == "answer_anonymously"

LABEL_ANSWER_TRANSACTION == "answerTransaction"

LABEL_NOT_ANSWER_TRANSACTION == "notAnswerTransaction"

LABEL_REPORT_QUESTION_TRANSACTION == "reportQuestionTransaction"

LABEL_REPORT_ANSWER_TRANSACTION == "reportAnswerTransaction"

LABEL_MORE_ANSWER_TRANSACTION == "moreAnswerTransaction"

LABEL_BEST_ANSWER_TRANSACTION == "bestAnswerTransaction"

\* A value that stands for Python's None.
None == "<None>"

\* ------------------------------------------------------------------- state

VARIABLES
  ctx,      \* the user's ConversationContext: a function from the keys present
  cache,    \* the payload cache: a function from the correlation keys present
  nextKey,  \* the next fresh correlation key (uuid4 never repeats)
  flags,    \* the first-answer-{user} entries of the cache (user ids)
  groupOf,  \* ghost: for each key handed out, the keys created with it
  consumed, \* ghost: the keys of every group one of whose buttons was hit
  offered,  \* ghost: for each key in the cache, the ButtonPayload cached for it
  last,     \* ghost: what the most recent turn did
  scen,     \* ghost: the history a specification follows (progress through
            \* a scenario of a flow, or the calls made so far)
  clk       \* the two concurrent clicks of the interleaved specification

vars == <<ctx, cache, nextKey, flags, groupOf, consumed, offered, last, scen, clk>>

\* ------------------------------------------------- the conversation context

has_static_state(c, k) == k \in DOMAIN c

get_static_state(c, k, default) == IF k \in DOMAIN c THEN c[k] ELSE default

with_static_state(c, k, v) ==
  [x \in (DOMAIN c) \cup {k} |-> IF x = k THEN v ELSE c[x]]

delete_static_state(c, k) == [x \in (DOMAIN c) \ {k} |-> c[x]]

EmptyContext == [x \in {} |-> None]

\* The empty dict {}.
EmptyDict == [x \in {} |-> None]

RECURSIVE DeleteAll(_, _)
DeleteAll(c, ks) ==
  IF ks = <<>> THEN c
  ELSE DeleteAll(delete_static_state(c, Head(ks)), Tail(ks))

\* ---------------------------------------------------------- the payload cache

cache_get(ch, k) == IF k \in DOMAIN ch THEN ch[k] ELSE None

cache_put(ch, k, v) == [x \in (DOMAIN ch) \cup {k} |-> IF x = k THEN v ELSE ch[x]]

cache_remove(ch, k) == [x \in (DOMAIN ch) \ {k} |-> ch[x]]

RECURSIVE RemoveAll(_, _)
RemoveAll(ch, ks) ==
  IF ks = <<>> THEN ch
  ELSE RemoveAll(cache_remove(ch, Head(ks)), Tail(ks))

\* ButtonPayload(payload, intent), its to_repr and its from_repr.
ButtonPayload(payload, intent) == <<payload, intent>>

to_repr(bp) == [payload |-> bp[1], intent |-> bp[2]]

\* from_repr that loses the related_buttons of the payload.
from_repr_no_related(raw) ==
  <<[k \in (DOMAIN raw.payload) \ {"related_buttons"} |-> raw.payload[k]], raw.intent>>

from_repr(raw) == <<raw.payload, raw.intent>>

\* --------------------------------------------------------- the intent router

\* An intent: a plain intent string (kind "named"), the intent of a button
\* with payload, "<button-prefix>--<id>" (kind "button", id the correlation
\* key), or no intent at all (kind "none": a free text).
NamedIntent(n) == [kind |-> "named", name |-> n, id |-> 0]

ButtonIntent(k) == [kind |-> "button", name |-> "", id |-> k]

NoIntent == [kind |-> "none", name |-> "", id |-> 0]

\* The value handed to a handler as its intent argument.
IntentValue(i) == IF i.kind = "named" THEN i.name ELSE ""

\* An incoming event of the user: a free text (IncomingTextMessage) or a
\* command or button click that carries an intent.
TextEvent(t) == [isText |-> TRUE, text |-> t, intent |-> NoIntent]

IntentEvent(i) == [isText |-> FALSE, text |-> "", intent |-> i]

\* The intents a command or a textual option can carry.
NamedIntents ==
  { INTENT_QUESTION, INTENT_QUESTION_FIRST, INTENT_ASK_TO_DIFFERENT,
    INTENT_ASK_TO_SIMILAR, INTENT_ASK_TO_ANYONE, INTENT_ASK_TO_NEARBY,
    INTENT_ASK_TO_ANYWHERE, INTENT_ANSWER_ANONYMOUSLY, INTENT_ANSWER_NOT_ANONYMOUSLY,
    INTENT_SENSITIVE_QUESTION, INTENT_NOT_SENSITIVE_QUESTION,
    INTENT_ANONYMOUS_QUESTION, INTENT_NOT_ANONYMOUS_QUESTION, INTENT_ANSWER_QUESTION,
    INTENT_ANSWER_REMIND_LATER, INTENT_ANSWER_NOT, INTENT_QUESTION_REPORT,
    INTENT_REPORT_ABUSIVE, INTENT_REPORT_SPAM, INTENT_ASK_MORE_ANSWERS,
    INTENT_ANSWER_REPORT, INTENT_ANSWER, INTENT_ANSWER_PICKED_QUESTION,
    INTENT_BEST_ANSWER, INTENT_PROFILE }

\* Every intent an event can carry.
Intents ==
  {NoIntent} \cup {NamedIntent(n) : n \in NamedIntents}
    \cup {ButtonIntent(k) : k \in KeyIds}

\* The states of _is_doing_another_action.
ActiveStatuses ==
  { STATE_ANSWERING, STATE_ANSWERING_SENSITIVE, STATE_ANSWERING_ANONYMOUSLY,
    STATE_QUESTION_1, STATE_QUESTION_2, STATE_QUESTION_3, STATE_QUESTION_4,
    STATE_QUESTION_4_1, STATE_QUESTION_5 }

\* One registered IntentFulfillerV3 with its rule; None marks a predicate
\* the rule does not state.
Rule(handler, intent, state, regex) ==
  [handler |-> handler, intent |-> intent, state |-> state, regex |-> regex]

\* The table with the button rule registered first instead of last.
RulesButtonFirst ==
  << Rule("handle_button_with_payload", None, None, TRUE),
     Rule("action_question", INTENT_QUESTION, None, FALSE),
     Rule("action_question", INTENT_QUESTION_FIRST, None, FALSE),
     Rule("action_question_2", None, STATE_QUESTION_1, FALSE),
     Rule("action_question_3", INTENT_ASK_TO_DIFFERENT, STATE_QUESTION_2, FALSE),
     Rule("action_question_3", INTENT_ASK_TO_SIMILAR, STATE_QUESTION_2, FALSE),
     Rule("action_question_3", INTENT_ASK_TO_ANYONE, STATE_QUESTION_2, FALSE),
     Rule("action_question_4", None, STATE_QUESTION_3, FALSE),
     Rule("action_question_4_1", INTENT_SENSITIVE_QUESTION, STATE_QUESTION_4, FALSE),
     Rule("action_question_5", INTENT_NOT_SENSITIVE_QUESTION, STATE_QUESTION_4, FALSE),
     Rule("action_question_5", INTENT_ANONYMOUS_QUESTION, STATE_QUESTION_4_1, FALSE),
     Rule("action_question_5", INTENT_NOT_ANONYMOUS_QUESTION, STATE_QUESTION_4_1, FALSE),
     Rule("action_question_6", INTENT_ASK_TO_NEARBY, STATE_QUESTION_5, FALSE),
     Rule("action_question_6", INTENT_ASK_TO_ANYWHERE, STATE_QUESTION_5, FALSE),
     Rule("action_answer_sensitive_question", None, STATE_ANSWERING_SENSITIVE, FALSE),
     Rule("action_answer_question_2", None, STATE_ANSWERING, FALSE),
     Rule("action_answer_question_anonymously", INTENT_ANSWER_ANONYMOUSLY,
          STATE_ANSWERING_ANONYMOUSLY, FALSE),
     Rule("action_answer_question_anonymously", INTENT_ANSWER_NOT_ANONYMOUSLY,
          STATE_ANSWERING_ANONYMOUSLY, FALSE),
     Rule("action_answer", INTENT_ANSWER, None, FALSE) >>

\* The rules AskForHelpHandler.__init__ registers, in registration order.
Rules ==
  << Rule("action_question", INTENT_QUESTION, None, FALSE),
     Rule("action_question", INTENT_QUESTION_FIRST, None, FALSE),
     Rule("action_question_2", None, STATE_QUESTION_1, FALSE),
     Rule("action_question_3", INTENT_ASK_TO_DIFFERENT, STATE_QUESTION_2, FALSE),
     Rule("action_question_3", INTENT_ASK_TO_SIMILAR, STATE_QUESTION_2, FALSE),
     Rule("action_question_3", INTENT_ASK_TO_ANYONE, STATE_QUESTION_2, FALSE),
     Rule("action_question_4", None, STATE_QUESTION_3, FALSE),
     Rule("action_question_4_1", INTENT_SENSITIVE_QUESTION, STATE_QUESTION_4, FALSE),
     Rule("action_question_5", INTENT_NOT_SENSITIVE_QUESTION, STATE_QUESTION_4, FALSE),
     Rule("action_question_5", INTENT_ANONYMOUS_QUESTION, STATE_QUESTION_4_1, FALSE),
     Rule("action_question_5", INTENT_NOT_ANONYMOUS_QUESTION, STATE_QUESTION_4_1, FALSE),
     Rule("action_question_6", INTENT_ASK_TO_NEARBY, STATE_QUESTION_5, FALSE),
     Rule("action_question_6", INTENT_ASK_TO_ANYWHERE, STATE_QUESTION_5, FALSE),
     Rule("action_answer_sensitive_question", None, STATE_ANSWERING_SENSITIVE, FALSE),
     Rule("action_answer_question_2", None, STATE_ANSWERING, FALSE),
     Rule("action_answer_question_anonymously", INTENT_ANSWER_ANONYMOUSLY,
          STATE_ANSWERING_ANONYMOUSLY, FALSE),
     Rule("action_answer_question_anonymously", INTENT_ANSWER_NOT_ANONYMOUSLY,
          STATE_ANSWERING_ANONYMOUSLY, FALSE),
     Rule("action_answer", INTENT_ANSWER, None, FALSE),
     Rule("handle_button_with_payload", None, None, TRUE) >>

\* The regex INTENT_BUTTON_WITH_PAYLOAD.format("[A-Za-z0-9-]+") on an intent:
\* the ids of the model are all made of letters, digits and dashes.
MatchesButtonRegex(i) == i.kind = "button"

\* The matching in which a rule that states a state alone lets the clicks of
\* buttons pass.
RuleMatchesButClicks(r, i, c) ==
  /\ r.intent # None \/ r.state # None \/ r.regex
  /\ r.intent # None => (i.kind = "named" /\ i.name = r.intent)
  /\ r.state # None => get_static_state(c, CONTEXT_CURRENT_STATE, None) = r.state
  /\ r.regex => MatchesButtonRegex(i)
  /\ (r.intent = None /\ ~r.regex) => i.kind # "button"

\* A rule matches when all the predicates it states hold, and a rule that
\* states none never matches.
RuleMatches(r, i, c) ==
  /\ r.intent # None \/ r.state # None \/ r.regex
  /\ r.intent # None => (i.kind = "named" /\ i.name = r.intent)
  /\ r.state # None => get_static_state(c, CONTEXT_CURRENT_STATE, None) = r.state
  /\ r.regex => MatchesButtonRegex(i)

\* The handler the router gives when no rule matches.
NO_FULFILLER == "action_error"

\* The scan that lets the last matching rule win.
RECURSIVE RouteLastMatch(_, _, _)
RouteLastMatch(rs, i, c) ==
  IF rs = <<>> THEN NO_FULFILLER
  ELSE IF RuleMatches(rs[Len(rs)], i, c) THEN rs[Len(rs)].handler
  ELSE RouteLastMatch(SubSeq(rs, 1, Len(rs) - 1), i, c)

\* The scan of the rules in registration order: the first match wins.
RECURSIVE RouteIn(_, _, _)
RouteIn(rs, i, c) ==
  IF rs = <<>> THEN NO_FULFILLER
  ELSE IF RuleMatches(Head(rs), i, c) THEN Head(rs).handler
  ELSE RouteIn(Tail(rs), i, c)

\* The handler of every intent in every state, computed once: the scan reads
\* nothing of the context but current_state.
RouteTable ==
  [st \in ActiveStatuses \cup {None}, i \in Intents |->
     RouteIn(Rules, i, IF st = None THEN EmptyContext ELSE [current_state |-> st])]

Route(i, c) == RouteTable[get_static_state(c, CONTEXT_CURRENT_STATE, None), i]

\* ------------------------------------------------------- turns and results

CONTEXT_WENET_USER_ID == "wenet_user_id"

\* The modelled user.
UserId == "u1"

\* What a handler starts from: the stores as they are, no message sent with
\* send_notification (sent), none in the returned event (out), no call made,
\* nothing raised.  hit tells whether a button lookup found its key, and bp
\* holds the ButtonPayload the lookup recovered (empty without a hit).
Start(c, ch, nk, fl, go, co, of) ==
  [ctx |-> c, cache |-> ch, nextKey |-> nk, flags |-> fl, groupOf |-> go,
   consumed |-> co, offered |-> of, sent |-> <<>>, out |-> <<>>, calls |-> <<>>,
   raised |-> FALSE, hit |-> "none", bp |-> <<>>]

with_message(r, m) == [r EXCEPT !.out = Append(@, m)]

Raise(r) == [r EXCEPT !.raised = TRUE]

\* A call of the task service: create_task or create_task_transaction, with
\* what was sent and whether the service accepted it.
TaskCall(goal, attributes, ok) ==
  [op |-> "create_task", goal |-> goal, attributes |-> attributes, ok |-> ok]

TransactionCall(task, label, attributes, ok) ==
  [op |-> "create_task_transaction", task_id |-> task, label |-> label,
   attributes |-> attributes, ok |-> ok]

with_call(r, call) == [r EXCEPT !.calls = Append(@, call)]

\* n fresh correlation keys: [str(uuid.uuid4()) for _ in range(n)].
NewKeys(r, n) == [i \in 1..n |-> r.nextKey + i - 1]

SeqRange(q) == {q[i] : i \in 1..Len(q)}

\* The keys of ids are handed out together (ghost: they form one group).
TakeKeys(r, ids) ==
  [r EXCEPT !.nextKey = @ + Len(ids),
            !.groupOf = [k \in (DOMAIN @) \cup SeqRange(ids) |->
                           IF k \in SeqRange(ids) THEN SeqRange(ids) ELSE @[k]]]

\* self.cache.cache(ButtonPayload(payload, intent).to_repr(), key=key)
CacheButton(r, key, payload, intent) ==
  [r EXCEPT !.cache = cache_put(@, key, to_repr(ButtonPayload(payload, intent))),
            !.offered = cache_put(@, key, ButtonPayload(payload, intent))]

\* ------------------------------------------------------- the question flow

\* action_question that forgets the question of the flow it restarts.
action_question_cleared(r, ev, intent) ==
  LET c1 == with_static_state(delete_static_state(r.ctx, CONTEXT_ASKED_QUESTION),
                              CONTEXT_CURRENT_STATE, STATE_QUESTION_1)
      r1 == [r EXCEPT !.ctx = c1]
      r2 == IF intent = INTENT_QUESTION_FIRST THEN with_message(r1, "question_0") ELSE r1
  IN with_message(r2, "question_1")

action_question(r, ev, intent) ==
  LET c1 == with_static_state(r.ctx, CONTEXT_CURRENT_STATE, STATE_QUESTION_1)
      r1 == [r EXCEPT !.ctx = c1]
      r2 == IF intent = INTENT_QUESTION_FIRST THEN with_message(r1, "question_0") ELSE r1
  IN with_message(r2, "question_1")

\* action_question_2 that takes whatever it is given as the question.
action_question_2_any_input(r, ev, intent) ==
  LET c1 == with_static_state(r.ctx, CONTEXT_CURRENT_STATE, STATE_QUESTION_2)
      c2 == with_static_state(c1, CONTEXT_ASKED_QUESTION, ev.text)
  IN with_message([r EXCEPT !.ctx = c2], "question_2")

\* action_question_2 that goes on to question_3 at once.
action_question_2_skips(r, ev, intent) ==
  IF ev.isText
  THEN LET c1 == with_static_state(r.ctx, CONTEXT_CURRENT_STATE, STATE_QUESTION_3)
           c2 == with_static_state(c1, CONTEXT_ASKED_QUESTION, ev.text)
       IN with_message([r EXCEPT !.ctx = c2], "question_2")
  ELSE with_message(r, "question_is_not_text")

action_question_2(r, ev, intent) ==
  IF ev.isText
  THEN LET c1 == with_static_state(r.ctx, CONTEXT_CURRENT_STATE, STATE_QUESTION_2)
           c2 == with_static_state(c1, CONTEXT_ASKED_QUESTION, ev.text)
       IN with_message([r EXCEPT !.ctx = c2], "question_2")
  ELSE with_message(r, "question_is_not_text")

\* action_question_3 that keeps a desired answerer the context already has.
action_question_3_keeps(r, ev, intent) ==
  LET c1 == IF has_static_state(r.ctx, CONTEXT_DESIRED_ANSWERER)
            THEN r.ctx
            ELSE with_static_state(r.ctx, CONTEXT_DESIRED_ANSWERER, intent)
      c2 == with_static_state(c1, CONTEXT_CURRENT_STATE, STATE_QUESTION_3)
  IN with_message([r EXCEPT !.ctx = c2], "specify_answerer")

action_question_3(r, ev, intent) ==
  LET c1 == with_static_state(r.ctx, CONTEXT_DESIRED_ANSWERER, intent)
      c2 == with_static_state(c1, CONTEXT_CURRENT_STATE, STATE_QUESTION_3)
  IN with_message([r EXCEPT !.ctx = c2], "specify_answerer")

\* action_question_4 that moves on without storing the details.
action_question_4_no_reason(r, ev, intent) ==
  IF ev.isText
  THEN LET c1 == with_static_state(r.ctx, CONTEXT_CURRENT_STATE, STATE_QUESTION_4)
       IN with_message([r EXCEPT !.ctx = c1], "sensitive_question")
  ELSE with_message(r, "answerer_details_are_not_text")

action_question_4(r, ev, intent) ==
  IF ev.isText
  THEN LET c1 == with_static_state(r.ctx, CONTEXT_CURRENT_STATE, STATE_QUESTION_4)
           c2 == with_static_state(c1, CONTEXT_DESIRED_ANSWERER_REASON, ev.text)
       IN with_message([r EXCEPT !.ctx = c2], "sensitive_question")
  ELSE with_message(r, "answerer_details_are_not_text")

\* action_question_4_1 with the values of its two writes exchanged.
action_question_4_1_swapped(r, ev, intent) ==
  LET c1 == with_static_state(r.ctx, CONTEXT_CURRENT_STATE, intent)
      c2 == with_static_state(c1, CONTEXT_SENSITIVE_QUESTION, STATE_QUESTION_4_1)
  IN with_message([r EXCEPT !.ctx = c2], "anonymous_question")

action_question_4_1(r, ev, intent) ==
  LET c1 == with_static_state(r.ctx, CONTEXT_CURRENT_STATE, STATE_QUESTION_4_1)
      c2 == with_static_state(c1, CONTEXT_SENSITIVE_QUESTION, intent)
  IN with_message([r EXCEPT !.ctx = c2], "anonymous_question")

action_question_5(r, ev, intent) ==
  LET c1 == with_static_state(r.ctx, CONTEXT_CURRENT_STATE, STATE_QUESTION_5)
      c2 == IF intent \in {INTENT_ANONYMOUS_QUESTION, INTENT_NOT_ANONYMOUS_QUESTION}
            THEN with_static_state(c1, CONTEXT_ANONYMOUS_QUESTION, intent)
            ELSE with_static_state(c1, CONTEXT_SENSITIVE_QUESTION, intent)
  IN with_message([r EXCEPT !.ctx = c2], "specify_answerer_location")

\* The keys the finally clause of action_question_6 deletes.
QuestionKeys ==
  << CONTEXT_ASKED_QUESTION, CONTEXT_DESIRED_ANSWERER, CONTEXT_DESIRED_ANSWERER_REASON,
     CONTEXT_SENSITIVE_QUESTION, CONTEXT_ANONYMOUS_QUESTION, CONTEXT_CURRENT_STATE >>

\* The attributes of the task action_question_6 creates.
QuestionAttributes(c, intent) ==
  [kindOfAnswerer |-> get_static_state(c, CONTEXT_DESIRED_ANSWERER, None),
   answeredDetails |-> get_static_state(c, CONTEXT_DESIRED_ANSWERER_REASON, None),
   sensitive |-> get_static_state(c, CONTEXT_SENSITIVE_QUESTION, None)
                   = INTENT_SENSITIVE_QUESTION,
   anonymous |-> get_static_state(c, CONTEXT_ANONYMOUS_QUESTION,
                                  INTENT_NOT_ANONYMOUS_QUESTION)
                   = INTENT_ANONYMOUS_QUESTION,
   positionOfAnswerer |-> intent]

\* action_question_6 with the cleanup done only when the task was created.
action_question_6_no_finally(r, ev, intent, ok) ==
  IF \/ ~has_static_state(r.ctx, CONTEXT_ASKED_QUESTION)
     \/ ~has_static_state(r.ctx, CONTEXT_DESIRED_ANSWERER)
     \/ ~has_static_state(r.ctx, CONTEXT_DESIRED_ANSWERER_REASON)
     \/ ~has_static_state(r.ctx, CONTEXT_SENSITIVE_QUESTION)
  THEN Raise(r)
  ELSE LET call == TaskCall(get_static_state(r.ctx, CONTEXT_ASKED_QUESTION, None),
                            QuestionAttributes(r.ctx, intent), ok)
           r1 == with_call(r, call)
       IN IF ok
          THEN [with_message(r1, "question_final") EXCEPT
                  !.ctx = DeleteAll(r.ctx, QuestionKeys)]
          ELSE with_message(r1, "error_task_creation")

\* action_question_6 whose test of the context forgets sensitive_question.
action_question_6_three_keys(r, ev, intent, ok) ==
  IF \/ ~has_static_state(r.ctx, CONTEXT_ASKED_QUESTION)
     \/ ~has_static_state(r.ctx, CONTEXT_DESIRED_ANSWERER)
     \/ ~has_static_state(r.ctx, CONTEXT_DESIRED_ANSWERER_REASON)
  THEN Raise(r)
  ELSE LET call == TaskCall(get_static_state(r.ctx, CONTEXT_ASKED_QUESTION, None),
                            QuestionAttributes(r.ctx, intent), ok)
           r1 == with_call(r, call)
           r2 == with_message(r1, IF ok THEN "question_final" ELSE "error_task_creation")
       IN [r2 EXCEPT !.ctx = DeleteAll(r.ctx, QuestionKeys)]

\* action_question_6 that leaves current_state and the keys of the question.
action_question_6_stays(r, ev, intent, ok) ==
  IF \/ ~has_static_state(r.ctx, CONTEXT_ASKED_QUESTION)
     \/ ~has_static_state(r.ctx, CONTEXT_DESIRED_ANSWERER)
     \/ ~has_static_state(r.ctx, CONTEXT_DESIRED_ANSWERER_REASON)
     \/ ~has_static_state(r.ctx, CONTEXT_SENSITIVE_QUESTION)
  THEN Raise(r)
  ELSE LET call == TaskCall(get_static_state(r.ctx, CONTEXT_ASKED_QUESTION, None),
                            QuestionAttributes(r.ctx, intent), ok)
           r1 == with_call(r, call)
       IN with_message(r1, IF ok THEN "question_final" ELSE "error_task_creation")

action_question_6(r, ev, intent, ok) ==
  IF \/ ~has_static_state(r.ctx, CONTEXT_ASKED_QUESTION)
     \/ ~has_static_state(r.ctx, CONTEXT_DESIRED_ANSWERER)
     \/ ~has_static_state(r.ctx, CONTEXT_DESIRED_ANSWERER_REASON)
     \/ ~has_static_state(r.ctx, CONTEXT_SENSITIVE_QUESTION)
  THEN Raise(r)
  ELSE LET call == TaskCall(get_static_state(r.ctx, CONTEXT_ASKED_QUESTION, None),
                            QuestionAttributes(r.ctx, intent), ok)
           r1 == with_call(r, call)
           r2 == with_message(r1, IF ok THEN "question_final" ELSE "error_task_creation")
       IN [r2 EXCEPT !.ctx = DeleteAll(r.ctx, QuestionKeys)]

\* --------------------------------------------------------- the answer flow

\* is_first_answer with one entry for all users.
is_first_answer_any_user(r, user) == r.flags = {}

\* is_first_answer: the first-answer-{user} entry of the cache.
is_first_answer(r, user) == user \notin r.flags

mark_first_answer(r, user) == [r EXCEPT !.flags = @ \cup {user}]

\* payload.get("sensitive") taken as a condition.
PayloadSensitive(payload) ==
  IF "sensitive" \in DOMAIN payload THEN payload.sensitive = TRUE ELSE FALSE

\* action_answer_question that does not store the question to answer.
action_answer_question_no_id(r, ev, bp, rnd) ==
  LET payload == bp[1]
      user_id == get_static_state(r.ctx, CONTEXT_WENET_USER_ID, None)
      first == user_id # None /\ is_first_answer(r, user_id)
      show_conduct_message == IF user_id # None THEN first \/ rnd ELSE TRUE
      r0 == IF user_id # None THEN mark_first_answer(r, user_id) ELSE r
      c2 == with_static_state(r.ctx, CONTEXT_CURRENT_STATE,
              IF PayloadSensitive(payload) THEN STATE_ANSWERING_SENSITIVE
              ELSE STATE_ANSWERING)
      r1 == with_message([r0 EXCEPT !.ctx = c2],
              IF PayloadSensitive(payload) THEN "answer_sensitive_question"
              ELSE "answer_question")
  IN IF show_conduct_message THEN with_message(r1, "question_0") ELSE r1

\* rnd stands for random.randint(1, 10) <= 2.
action_answer_question(r, ev, bp, rnd) ==
  LET payload == bp[1]
      user_id == get_static_state(r.ctx, CONTEXT_WENET_USER_ID, None)
      first == user_id # None /\ is_first_answer(r, user_id)
      show_conduct_message == IF user_id # None THEN first \/ rnd ELSE TRUE
      r0 == IF user_id # None THEN mark_first_answer(r, user_id) ELSE r
      c1 == with_static_state(r.ctx, CONTEXT_QUESTION_TO_ANSWER, payload.task_id)
      c2 == with_static_state(c1, CONTEXT_CURRENT_STATE,
              IF PayloadSensitive(payload) THEN STATE_ANSWERING_SENSITIVE
              ELSE STATE_ANSWERING)
      r1 == with_message([r0 EXCEPT !.ctx = c2],
              IF PayloadSensitive(payload) THEN "answer_sensitive_question"
              ELSE "answer_question")
  IN IF show_conduct_message THEN with_message(r1, "question_0") ELSE r1

action_answer_picked_question(r, ev, bp) ==
  LET payload == bp[1]
      c1 == with_static_state(r.ctx, CONTEXT_QUESTION_TO_ANSWER, payload.task_id)
      c2 == delete_static_state(c1, CONTEXT_PROPOSED_TASKS)
      user_id == get_static_state(r.ctx, CONTEXT_WENET_USER_ID, None)
      c3 == with_static_state(c2, CONTEXT_CURRENT_STATE,
              IF PayloadSensitive(payload) THEN STATE_ANSWERING_SENSITIVE
              ELSE STATE_ANSWERING)
      r1 == with_message([r EXCEPT !.ctx = c3],
              IF PayloadSensitive(payload) THEN "you_are_answering_to_sensitive"
              ELSE "you_are_answering_to")
  IN IF is_first_answer(r, user_id)
     THEN with_message(mark_first_answer(r1, user_id), "question_0")
     ELSE r1

\* action_answer_sensitive_question that keeps a text the context already
\* has.
action_answer_sensitive_question_keeps(r, ev, intent) ==
  IF ~has_static_state(r.ctx, CONTEXT_QUESTION_TO_ANSWER)
  THEN Raise(r)
  ELSE IF ev.isText
  THEN LET c1 == with_static_state(r.ctx, CONTEXT_CURRENT_STATE,
                                   STATE_ANSWERING_ANONYMOUSLY)
           c2 == IF has_static_state(c1, CONTEXT_ANSWER_TO_QUESTION) THEN c1
                 ELSE with_static_state(c1, CONTEXT_ANSWER_TO_QUESTION, ev.text)
       IN with_message([r EXCEPT !.ctx = c2], "answer_anonymously")
  ELSE with_message(r, "answerer_is_not_text")

action_answer_sensitive_question(r, ev, intent) ==
  IF ~has_static_state(r.ctx, CONTEXT_QUESTION_TO_ANSWER)
  THEN Raise(r)
  ELSE IF ev.isText
  THEN LET c1 == with_static_state(r.ctx, CONTEXT_CURRENT_STATE,
                                   STATE_ANSWERING_ANONYMOUSLY)
           c2 == with_static_state(c1, CONTEXT_ANSWER_TO_QUESTION, ev.text)
       IN with_message([r EXCEPT !.ctx = c2], "answer_anonymously")
  ELSE with_message(r, "answerer_is_not_text")

\* The message a handler sends when the task service rejects a transaction.
SOMETHING_WENT_WRONG == "I'm sorry, something went wrong, try again later"

\* The handler with the test of the intent taken the other way round.
action_answer_question_anonymously_retries(r, ev, intent, ok) ==
  IF ~has_static_state(r.ctx, CONTEXT_QUESTION_TO_ANSWER)
  THEN Raise(r)
  ELSE LET question_id == get_static_state(r.ctx, CONTEXT_QUESTION_TO_ANSWER, None)
           answer == get_static_state(r.ctx, CONTEXT_ANSWER_TO_QUESTION, None)
           call == TransactionCall(question_id, LABEL_ANSWER_TRANSACTION,
                     [answer |-> answer,
                      anonymous |-> (intent = INTENT_ANSWER_ANONYMOUSLY)], ok)
           r1 == with_call(r, call)
           r2 == with_message(r1,
                   IF ~ok THEN SOMETHING_WENT_WRONG
                   ELSE IF intent = INTENT_ANSWER_ANONYMOUSLY
                        THEN "answered_message_anonymously"
                        ELSE "answered_message")
       IN IF ok
          THEN [r2 EXCEPT !.ctx = DeleteAll(r.ctx,
                          <<CONTEXT_QUESTION_TO_ANSWER, CONTEXT_CURRENT_STATE>>)]
          ELSE r2

action_answer_question_anonymously_swapped(r, ev, intent, ok) ==
  IF ~has_static_state(r.ctx, CONTEXT_QUESTION_TO_ANSWER)
  THEN Raise(r)
  ELSE LET question_id == get_static_state(r.ctx, CONTEXT_QUESTION_TO_ANSWER, None)
           answer == get_static_state(r.ctx, CONTEXT_ANSWER_TO_QUESTION, None)
           call == TransactionCall(question_id, LABEL_ANSWER_TRANSACTION,
                     [answer |-> answer,
                      anonymous |-> (intent = INTENT_ANSWER_NOT_ANONYMOUSLY)], ok)
           r1 == with_call(r, call)
           r2 == with_message(r1,
                   IF ~ok THEN SOMETHING_WENT_WRONG
                   ELSE IF intent = INTENT_ANSWER_ANONYMOUSLY
                        THEN "answered_message_anonymously"
                        ELSE "answered_message")
       IN [r2 EXCEPT !.ctx = DeleteAll(r.ctx,
                       <<CONTEXT_QUESTION_TO_ANSWER, CONTEXT_CURRENT_STATE>>)]

action_answer_question_anonymously(r, ev, intent, ok) ==
  IF ~has_static_state(r.ctx, CONTEXT_QUESTION_TO_ANSWER)
  THEN Raise(r)
  ELSE LET question_id == get_static_state(r.ctx, CONTEXT_QUESTION_TO_ANSWER, None)
           answer == get_static_state(r.ctx, CONTEXT_ANSWER_TO_QUESTION, None)
           call == TransactionCall(question_id, LABEL_ANSWER_TRANSACTION,
                     [answer |-> answer,
                      anonymous |-> (intent = INTENT_ANSWER_ANONYMOUSLY)], ok)
           r1 == with_call(r, call)
           r2 == with_message(r1,
                   IF ~ok THEN SOMETHING_WENT_WRONG
                   ELSE IF intent = INTENT_ANSWER_ANONYMOUSLY
                        THEN "answered_message_anonymously"
                        ELSE "answered_message")
       IN [r2 EXCEPT !.ctx = DeleteAll(r.ctx,
                       <<CONTEXT_QUESTION_TO_ANSWER, CONTEXT_CURRENT_STATE>>)]

\* action_answer_question_2 with the cleanup done only when the transaction
\* was created.
action_answer_question_2_no_finally(r, ev, intent, ok) ==
  IF ~has_static_state(r.ctx, CONTEXT_QUESTION_TO_ANSWER)
  THEN Raise(r)
  ELSE IF ev.isText
  THEN LET question_id == get_static_state(r.ctx, CONTEXT_QUESTION_TO_ANSWER, None)
           call == TransactionCall(question_id, LABEL_ANSWER_TRANSACTION,
                     [answer |-> ev.text, anonymous |-> FALSE], ok)
           r1 == with_call(r, call)
       IN IF ok
          THEN [with_message(r1, "answered_message") EXCEPT
                  !.ctx = DeleteAll(r.ctx,
                            <<CONTEXT_QUESTION_TO_ANSWER, CONTEXT_CURRENT_STATE>>)]
          ELSE with_message(r1, SOMETHING_WENT_WRONG)
  ELSE with_message(r, "answerer_is_not_text")

action_answer_question_2(r, ev, intent, ok) ==
  IF ~has_static_state(r.ctx, CONTEXT_QUESTION_TO_ANSWER)
  THEN Raise(r)
  ELSE IF ev.isText
  THEN LET question_id == get_static_state(r.ctx, CONTEXT_QUESTION_TO_ANSWER, None)
           call == TransactionCall(question_id, LABEL_ANSWER_TRANSACTION,
                     [answer |-> ev.text, anonymous |-> FALSE], ok)
           r1 == with_call(r, call)
           r2 == with_message(r1, IF ok THEN "answered_message"
                                  ELSE SOMETHING_WENT_WRONG)
       IN [r2 EXCEPT !.ctx = DeleteAll(r.ctx,
                       <<CONTEXT_QUESTION_TO_ANSWER, CONTEXT_CURRENT_STATE>>)]
  ELSE with_message(r, "answerer_is_not_text")

\* action_not_answer_question that ends what the user is doing.
action_not_answer_question_ends(r, ev, bp, ok) ==
  LET call == TransactionCall(bp[1].task_id, LABEL_NOT_ANSWER_TRANSACTION,
                              EmptyDict, ok)
      r1 == with_message(with_call(r, call),
                         IF ok THEN "not_answer_response" ELSE SOMETHING_WENT_WRONG)
  IN [r1 EXCEPT !.ctx = delete_static_state(@, CONTEXT_CURRENT_STATE)]

action_not_answer_question(r, ev, bp, ok) ==
  LET call == TransactionCall(bp[1].task_id, LABEL_NOT_ANSWER_TRANSACTION,
                              EmptyDict, ok)
  IN with_message(with_call(r, call),
                  IF ok THEN "not_answer_response" ELSE SOMETHING_WENT_WRONG)

\* action_answer_remind_later that stores the pending entry under the key of
\* the clicked button.
action_answer_remind_later_by_button(r, ev, bp) ==
  LET r1 == with_message(r, "answer_remind_later_message")
      pending_answers == get_static_state(r.ctx, CONTEXT_PENDING_ANSWERS,
                                          [x \in {} |-> <<>>])
      question_id == bp[1].task_id
      button_ids == NewKeys(r, 4)
      button_data == [task_id |-> question_id, related_buttons |-> button_ids]
      r2 == TakeKeys(r1, button_ids)
      r3 == CacheButton(r2, button_ids[1], button_data, INTENT_ANSWER_QUESTION)
      r4 == CacheButton(r3, button_ids[2], button_data, INTENT_ANSWER_REMIND_LATER)
      r5 == CacheButton(r4, button_ids[3], button_data, INTENT_ANSWER_NOT)
      r6 == CacheButton(r5, button_ids[4], button_data, INTENT_QUESTION_REPORT)
      pending == [x \in (DOMAIN pending_answers) \cup {-ev.intent.id} |->
                    IF x = -ev.intent.id THEN button_ids ELSE pending_answers[x]]
  IN [r6 EXCEPT !.ctx = with_static_state(r.ctx, CONTEXT_PENDING_ANSWERS, pending)]

\* The offer is re-created with four new buttons, whose payload has task_id,
\* related_buttons, question and username, and stored under pending_answers.
action_answer_remind_later(r, ev, bp) ==
  LET r1 == with_message(r, "answer_remind_later_message")
      pending_answers == get_static_state(r.ctx, CONTEXT_PENDING_ANSWERS,
                                          [x \in {} |-> <<>>])
      question_id == bp[1].task_id
      button_ids == NewKeys(r, 4)
      button_data == [task_id |-> question_id, related_buttons |-> button_ids]
      r2 == TakeKeys(r1, button_ids)
      r3 == CacheButton(r2, button_ids[1], button_data, INTENT_ANSWER_QUESTION)
      r4 == CacheButton(r3, button_ids[2], button_data, INTENT_ANSWER_REMIND_LATER)
      r5 == CacheButton(r4, button_ids[3], button_data, INTENT_ANSWER_NOT)
      r6 == CacheButton(r5, button_ids[4], button_data, INTENT_QUESTION_REPORT)
      pending == [x \in (DOMAIN pending_answers) \cup {question_id} |->
                    IF x = question_id THEN button_ids ELSE pending_answers[x]]
  IN [r6 EXCEPT !.ctx = with_static_state(r.ctx, CONTEXT_PENDING_ANSWERS, pending)]

\* ------------------------------------------------------- reports and picks

\* payload.update({"related_buttons": button_ids})
PayloadUpdate(payload, k, v) ==
  [x \in (DOMAIN payload) \cup {k} |-> IF x = k THEN v ELSE payload[x]]

action_report_message(r, ev, bp) ==
  LET button_ids == NewKeys(r, 2)
      payload == PayloadUpdate(bp[1], "related_buttons", button_ids)
      r1 == TakeKeys(r, button_ids)
      r2 == CacheButton(r1, button_ids[1], payload, INTENT_REPORT_ABUSIVE)
      r3 == CacheButton(r2, button_ids[2], payload, INTENT_REPORT_SPAM)
  IN with_message(r3, "why_reporting_message")

\* action_report_message_1 without its except clause: the error of the task
\* service leaves the handler.
action_report_message_1_no_except(r, ev, bp, ok) ==
  LET payload == bp[1]
      hasTx == "transaction_id" \in DOMAIN payload
      label == IF hasTx THEN LABEL_REPORT_ANSWER_TRANSACTION
               ELSE LABEL_REPORT_QUESTION_TRANSACTION
      attributes == IF hasTx
                    THEN [reason |-> bp[2], transactionId |-> payload.transaction_id]
                    ELSE [reason |-> bp[2]]
      call == TransactionCall(payload.task_id, label, attributes, ok)
  IN IF ok THEN with_message(with_call(r, call), "report_final_message")
     ELSE Raise(with_call(r, call))

\* action_report_message_1 that reports every message as a question.
action_report_message_1_as_question(r, ev, bp, ok) ==
  LET call == TransactionCall(bp[1].task_id, LABEL_REPORT_QUESTION_TRANSACTION,
                              [reason |-> bp[2]], ok)
  IN with_message(with_call(r, call),
                  IF ok THEN "report_final_message" ELSE SOMETHING_WENT_WRONG)

action_report_message_1(r, ev, bp, ok) ==
  LET payload == bp[1]
      hasTx == "transaction_id" \in DOMAIN payload
      label == IF hasTx THEN LABEL_REPORT_ANSWER_TRANSACTION
               ELSE LABEL_REPORT_QUESTION_TRANSACTION
      attributes == IF hasTx
                    THEN [reason |-> bp[2], transactionId |-> payload.transaction_id]
                    ELSE [reason |-> bp[2]]
      call == TransactionCall(payload.task_id, label, attributes, ok)
  IN with_message(with_call(r, call),
                  IF ok THEN "report_final_message" ELSE SOMETHING_WENT_WRONG)

action_more_answers(r, ev, bp, ok) ==
  LET call == TransactionCall(bp[1].task_id, LABEL_MORE_ANSWER_TRANSACTION,
                              EmptyDict, ok)
      r1 == with_message(with_call(r, call),
                         IF ok THEN "ask_more_answers_text" ELSE SOMETHING_WENT_WRONG)
  IN [r1 EXCEPT !.ctx = delete_static_state(r.ctx, CONTEXT_CURRENT_STATE)]

action_best_answer(r, ev, bp, ok) ==
  LET call == TransactionCall(bp[1].task_id, LABEL_BEST_ANSWER_TRANSACTION,
                              [transactionId |-> bp[1].transaction_id], ok)
  IN with_message(with_call(r, call),
                  IF ok THEN "best_answer_final_message" ELSE SOMETHING_WENT_WRONG)

\* -------------------------------------------------------------- /answer

\* The buttons of the proposals: each payload is cached under a key of its
\* own, without related_buttons.
RECURSIVE CacheProposals(_, _)
CacheProposals(r, tasks) ==
  IF tasks = <<>> THEN r
  ELSE LET button_id == r.nextKey
           payload == [task_id |-> Head(tasks), sensitive |-> TaskSensitive(Head(tasks))]
           r1 == TakeKeys(r, <<button_id>>)
           r2 == CacheButton(r1, button_id, payload, INTENT_ANSWER_PICKED_QUESTION)
       IN CacheProposals(r2, Tail(tasks))

\* hasTasks: the task service lists a task the user can answer; proposed: the
\* tasks sampled whose requester has a profile.
action_answer(r, ev, hasTasks, proposed) ==
  IF ~hasTasks
  THEN with_message(r, "answers_no_tasks")
  ELSE LET c1 == with_static_state(r.ctx, CONTEXT_PROPOSED_TASKS, proposed)
           r1 == CacheProposals([r EXCEPT !.ctx = c1], proposed)
       IN with_message(r1, "answers_tasks_intro")

\* ------------------------------------------------- buttons with a payload

cache_has(ch, k) == k \in DOMAIN ch

DispatchButton(r, ev, bp, ok, rnd) ==
  LET intent == bp[2]
  IN IF intent = INTENT_ASK_MORE_ANSWERS THEN action_more_answers(r, ev, bp, ok)
     ELSE IF intent \in {INTENT_QUESTION_REPORT, INTENT_ANSWER_REPORT}
          THEN action_report_message(r, ev, bp)
     ELSE IF intent \in {INTENT_REPORT_ABUSIVE, INTENT_REPORT_SPAM}
          THEN action_report_message_1(r, ev, bp, ok)
     ELSE IF intent = INTENT_BEST_ANSWER THEN action_best_answer(r, ev, bp, ok)
     ELSE IF intent = INTENT_ANSWER_NOT THEN action_not_answer_question(r, ev, bp, ok)
     ELSE IF intent = INTENT_ANSWER_QUESTION THEN action_answer_question(r, ev, bp, rnd)
     ELSE IF intent = INTENT_ANSWER_REMIND_LATER
          THEN action_answer_remind_later(r, ev, bp)
     ELSE IF intent = INTENT_ANSWER_PICKED_QUESTION
          THEN action_answer_picked_question(r, ev, bp)
     ELSE Raise(r)

\* A hit that removes the clicked key alone.
KeysToRemoveOnlyClicked(button_id, bp) == <<button_id>>

\* A hit that removes, with a button that has no related buttons, the button
\* cached next to it.
KeysToRemoveWithNext(button_id, bp) ==
  IF "related_buttons" \in DOMAIN bp[1] THEN bp[1].related_buttons
  ELSE <<button_id, button_id + 1>>

\* The keys a hit removes: the related buttons, or else the button itself.
KeysToRemove(button_id, bp) ==
  IF "related_buttons" \in DOMAIN bp[1] THEN bp[1].related_buttons
  ELSE <<button_id>>

\* A miss that is not answered with the expired message: the lookup result
\* is used as it is.
handle_button_with_payload_no_miss_check(r, ev, ok, rnd) ==
  LET button_id == ev.intent.id
  IN IF ~cache_has(r.cache, button_id)
     THEN Raise([r EXCEPT !.hit = "miss"])
     ELSE LET bp == from_repr(cache_get(r.cache, button_id))
              r1 == [r EXCEPT !.hit = "hit", !.bp = <<bp>>,
                              !.cache = RemoveAll(@, KeysToRemove(button_id, bp)),
                              !.consumed = @ \cup r.groupOf[button_id]]
          IN DispatchButton(r1, ev, bp, ok, rnd)

\* A hit that leaves the keys in the cache.
handle_button_with_payload_keep_keys(r, ev, ok, rnd) ==
  LET button_id == ev.intent.id
  IN IF ~cache_has(r.cache, button_id)
     THEN with_message([r EXCEPT !.hit = "miss"], "expired_button_message")
     ELSE LET bp == from_repr(cache_get(r.cache, button_id))
              r1 == [r EXCEPT !.hit = "hit", !.bp = <<bp>>,
                              !.consumed = @ \cup r.groupOf[button_id]]
          IN DispatchButton(r1, ev, bp, ok, rnd)

handle_button_with_payload(r, ev, ok, rnd) ==
  LET button_id == ev.intent.id
  IN IF ~cache_has(r.cache, button_id)
     THEN with_message([r EXCEPT !.hit = "miss"], "expired_button_message")
     ELSE LET bp == from_repr(cache_get(r.cache, button_id))
              r1 == [r EXCEPT !.hit = "hit", !.bp = <<bp>>,
                              !.cache = RemoveAll(@, KeysToRemove(button_id, bp)),
                              !.consumed = @ \cup r.groupOf[button_id]]
          IN DispatchButton(r1, ev, bp, ok, rnd)

\* action_error, the handler of an event no rule matches.
action_error(r, ev, intent) == with_message(r, "error_text")

\* The call of the handler the router selected.
Handle(h, r, ev, ok, rnd, hasTasks, proposed) ==
  LET intent == IntentValue(ev.intent)
  IN CASE h = "action_question" -> action_question(r, ev, intent)
       [] h = "action_question_2" -> action_question_2(r, ev, intent)
       [] h = "action_question_3" -> action_question_3(r, ev, intent)
       [] h = "action_question_4" -> action_question_4(r, ev, intent)
       [] h = "action_question_4_1" -> action_question_4_1(r, ev, intent)
       [] h = "action_question_5" -> action_question_5(r, ev, intent)
       [] h = "action_question_6" -> action_question_6(r, ev, intent, ok)
       [] h = "action_answer_sensitive_question" ->
            action_answer_sensitive_question(r, ev, intent)
       [] h = "action_answer_question_2" -> action_answer_question_2(r, ev, intent, ok)
       [] h = "action_answer_question_anonymously" ->
            action_answer_question_anonymously(r, ev, intent, ok)
       [] h = "action_answer" -> action_answer(r, ev, hasTasks, proposed)
       [] h = "handle_button_with_payload" -> handle_button_with_payload(r, ev, ok, rnd)
       [] OTHER -> action_error(r, ev, intent)

\* ------------------------------------------------ pushes of the task service

\* The keys _clear_context deletes.
ContextToRemove ==
  << CONTEXT_CURRENT_STATE, CONTEXT_ASKED_QUESTION, CONTEXT_DESIRED_ANSWERER,
     CONTEXT_QUESTION_TO_ANSWER, CONTEXT_MESSAGE_TO_REPORT,
     CONTEXT_REPORTING_IS_QUESTION, CONTEXT_REPORTING_REASON,
     CONTEXT_ORIGINAL_QUESTION_REPORTING, CONTEXT_DESIRED_ANSWERER_REASON,
     CONTEXT_SENSITIVE_QUESTION, CONTEXT_ANONYMOUS_QUESTION >>

clear_context(c) == DeleteAll(c, ContextToRemove)

\* cancel_action that deletes current_state alone.
cancel_action_state_only(r, ev, intent) ==
  with_message([r EXCEPT !.ctx = delete_static_state(@, CONTEXT_CURRENT_STATE)],
               "cancel_text")

\* cancel_action: the context is cleared and returned with the cancel text.
cancel_action(r, ev, intent) ==
  with_message([r EXCEPT !.ctx = clear_context(@)], "cancel_text")

\* The check with the states of the answer flow left out.
is_doing_another_action_question_only(c) ==
  get_static_state(c, CONTEXT_CURRENT_STATE, "") \in
    { STATE_QUESTION_1, STATE_QUESTION_2, STATE_QUESTION_3, STATE_QUESTION_4,
      STATE_QUESTION_4_1, STATE_QUESTION_5 }

\* The check that takes every user to be doing something else.
is_doing_another_action_always(c) == TRUE

is_doing_another_action(c) ==
  get_static_state(c, CONTEXT_CURRENT_STATE, "") \in ActiveStatuses

\* _send_new_message_from_wenet_notification: the context is cleared and the
\* notice is sent at once, with send_notification, together with the context.
send_new_message_from_wenet_notification(r) ==
  [r EXCEPT !.ctx = clear_context(@), !.sent = Append(@, "message_from_wenet")]

\* The previous operation of a user who is doing something else is cancelled.
Preempt(r) ==
  IF is_doing_another_action(r.ctx)
  THEN send_new_message_from_wenet_notification(r)
  ELSE r

handle_wenet_textual_message(r, msg) == with_message(Preempt(r), "textual_message")

\* The offer of a question to a nearby answerer: three buttons.
handle_nearby_question(r, msg, sensitive) ==
  LET button_ids == NewKeys(r, 3)
      button_data == [task_id |-> msg.task_id, sensitive |-> sensitive,
                      related_buttons |-> button_ids]
      r1 == TakeKeys(r, button_ids)
      r2 == CacheButton(r1, button_ids[1], button_data, INTENT_ANSWER_QUESTION)
      r3 == CacheButton(r2, button_ids[2], button_data, INTENT_ANSWER_NOT)
      r4 == CacheButton(r3, button_ids[3], button_data, INTENT_QUESTION_REPORT)
  IN with_message(r4, IF sensitive THEN "answer_sensitive_message_nearby"
                      ELSE "answer_message_nearby")

\* The offer whose related_buttons leaves out the last button.
handle_question_short_related(r, msg, sensitive) ==
  LET button_ids == NewKeys(r, 4)
      button_data == [task_id |-> msg.task_id, sensitive |-> sensitive,
                      related_buttons |-> SubSeq(button_ids, 1, 3)]
      r1 == TakeKeys(r, button_ids)
      r2 == CacheButton(r1, button_ids[1], button_data, INTENT_ANSWER_QUESTION)
      r3 == CacheButton(r2, button_ids[2], button_data, INTENT_ANSWER_REMIND_LATER)
      r4 == CacheButton(r3, button_ids[3], button_data, INTENT_ANSWER_NOT)
      r5 == CacheButton(r4, button_ids[4], button_data, INTENT_QUESTION_REPORT)
  IN with_message(r5, IF sensitive THEN "answer_sensitive_message_0"
                      ELSE "answer_message_0")

\* The offer of a question: four buttons.
handle_question(r, msg, sensitive) ==
  LET button_ids == NewKeys(r, 4)
      button_data == [task_id |-> msg.task_id, sensitive |-> sensitive,
                      related_buttons |-> button_ids]
      r1 == TakeKeys(r, button_ids)
      r2 == CacheButton(r1, button_ids[1], button_data, INTENT_ANSWER_QUESTION)
      r3 == CacheButton(r2, button_ids[2], button_data, INTENT_ANSWER_REMIND_LATER)
      r4 == CacheButton(r3, button_ids[3], button_data, INTENT_ANSWER_NOT)
      r5 == CacheButton(r4, button_ids[4], button_data, INTENT_QUESTION_REPORT)
  IN with_message(r5, IF sensitive THEN "answer_sensitive_message_0"
                      ELSE "answer_message_0")

\* txKnown: the task holds the transaction the message names (without it
\* answer_transaction stays None and its attributes cannot be read).
handle_answered_question(r, msg, txKnown) ==
  IF ~txKnown THEN Raise(r)
  ELSE LET button_ids == NewKeys(r, 3)
           button_data == [transaction_id |-> msg.transaction_id,
                           task_id |-> msg.task_id, related_buttons |-> button_ids]
           r1 == TakeKeys(r, button_ids)
           r2 == CacheButton(r1, button_ids[1], button_data, INTENT_BEST_ANSWER)
           r3 == CacheButton(r2, button_ids[2], button_data, INTENT_ASK_MORE_ANSWERS)
           r4 == CacheButton(r3, button_ids[3], button_data, INTENT_ANSWER_REPORT)
       IN with_message(r4, "new_answer_message")

\* A message of the task service: its kind, and the task and transaction it
\* names.
WenetMessage(kind, task, tx) == [kind |-> kind, task_id |-> task, transaction_id |-> tx]

MessageKinds ==
  { "QuestionToAnswerMessage", "AnsweredQuestionMessage", "AnsweredPickedMessage",
    "IncentiveMessage", "IncentiveBadge", "Other" }

\* The reads of the task service handle_wenet_message makes inside its try
\* block for a message of the given kind, in the order of the code.
ServiceReads(kind) ==
  CASE kind \in {"QuestionToAnswerMessage", "AnsweredQuestionMessage"} ->
         <<"get_user_profile", "get_user_profile", "get_task">>
    [] kind = "AnsweredPickedMessage" -> <<"get_user_profile", "get_task">>
    [] OTHER -> <<"get_user_profile">>

\* A read of the task service; ok is false when it raised
\* RefreshTokenExpiredError.
ReadCall(op, ok) == [op |-> op, ok |-> ok]

\* The reads made when the read number authExpired raises (0: none does).
ReadsUntil(reads, authExpired) ==
  IF authExpired \in 1..Len(reads)
  THEN [i \in 1..authExpired |-> ReadCall(reads[i], i # authExpired)]
  ELSE [i \in 1..Len(reads) |-> ReadCall(reads[i], TRUE)]

\* handle_wenet_message with the read that raised made a second time.
handle_wenet_message_retry(r, msg, authExpired, txKnown) ==
  LET r0 == Preempt(r)
      reads == ServiceReads(msg.kind)
      made == ReadsUntil(reads, authExpired)
      r1 == [r0 EXCEPT !.calls = @ \o made]
  IN IF authExpired \in 1..Len(reads)
     THEN with_message(with_call(r1, ReadCall(reads[authExpired], FALSE)), "login_again")
     ELSE CASE msg.kind = "QuestionToAnswerMessage" ->
                 IF TaskNearby(msg.task_id)
                 THEN handle_nearby_question(r1, msg, TaskSensitive(msg.task_id))
                 ELSE handle_question(r1, msg, TaskSensitive(msg.task_id))
            [] msg.kind = "AnsweredQuestionMessage" ->
                 handle_answered_question(r1, msg, txKnown)
            [] msg.kind = "AnsweredPickedMessage" -> with_message(r1, "picked_best_answer")
            [] msg.kind = "IncentiveMessage" -> with_message(r1, "incentive_content")
            [] msg.kind = "IncentiveBadge" ->
                 with_message(with_message(r1, "badge_message"), "badge_image")
            [] OTHER -> Raise(r1)

\* authExpired: the number of the read of the task service that raises
\* RefreshTokenExpiredError, 0 when none does.  The reads all come before the
\* message is rendered and its buttons are cached.
handle_wenet_message(r, msg, authExpired, txKnown) ==
  LET r0 == Preempt(r)
      reads == ServiceReads(msg.kind)
      r1 == [r0 EXCEPT !.calls = @ \o ReadsUntil(reads, authExpired)]
  IN IF authExpired \in 1..Len(reads)
     THEN with_message(r1, "login_again")
     ELSE CASE msg.kind = "QuestionToAnswerMessage" ->
                 IF TaskNearby(msg.task_id)
                 THEN handle_nearby_question(r1, msg, TaskSensitive(msg.task_id))
                 ELSE handle_question(r1, msg, TaskSensitive(msg.task_id))
            [] msg.kind = "AnsweredQuestionMessage" ->
                 handle_answered_question(r1, msg, txKnown)
            [] msg.kind = "AnsweredPickedMessage" -> with_message(r1, "picked_best_answer")
            [] msg.kind = "IncentiveMessage" -> with_message(r1, "incentive_content")
            [] msg.kind = "IncentiveBadge" ->
                 with_message(with_message(r1, "badge_message"), "badge_image")
            [] OTHER -> Raise(r1)

\* ------------------------------------------------------------ the inputs

\* The events of the user: a free text, a named intent, or a click on a
\* button with payload (of a key handed out or not).
UserEvents(texts, names, maxKey) ==
  {TextEvent(t) : t \in texts}
    \cup {IntentEvent(NamedIntent(n)) : n \in names}
    \cup {IntentEvent(ButtonIntent(k)) : k \in 0..maxKey}

\* /answer proposes at most this many tasks.
MaxProposed == 3

\* The lists of tasks /answer can propose: distinct tasks, listed by their
\* ids (the order decides the numbers shown on the buttons and nothing else).
Proposals ==
  {q \in UNION {[1..n -> TaskIds] : n \in 0..MaxProposed} :
     \A i, j \in 1..Len(q) : i < j => q[i] < q[j]}

\* The kinds of message whose handling reads the task the message names.
TaskMessageKinds == {"QuestionToAnswerMessage", "AnsweredQuestionMessage"}

\* The messages of the given kinds: one for each task and transaction when
\* the handling reads them, one alone otherwise.
WenetMessages(kinds) ==
  {WenetMessage(k, t, x) :
     k \in kinds \cap TaskMessageKinds, t \in TaskIds, x \in TransactionIds}
    \cup {WenetMessage(k, 0, "") : k \in kinds \ TaskMessageKinds}

\* The answers to the question of task t.
AnswersTo(t) ==
  {WenetMessage("AnsweredQuestionMessage", t, x) : x \in TransactionIds}

\* ------------------------------------------------------------- the ghosts

\* What the most recent turn did: the handler that ran, the messages it sent
\* at once (sent) and returned (out), its calls of the task service, whether
\* it raised, whether a button lookup found its key; of a user's event its
\* form (text, named, button) and the id a click named (-1: no click), with
\* the ButtonPayload a hit recovered (bp); of a push the message of the task
\* service.
NoMessage == WenetMessage("", 0, "")

LastOf(kind, h, r) ==
  [kind |-> kind, handler |-> h, sent |-> r.sent, out |-> r.out, calls |-> r.calls,
   raised |-> r.raised, hit |-> r.hit, bp |-> r.bp, event |-> "none", key |-> -1,
   msg |-> NoMessage]

LastPush(h, msg, r) == [LastOf("push", h, r) EXCEPT !.msg = msg]

LastUser(kind, h, ev, r) ==
  [LastOf(kind, h, r) EXCEPT
     !.event = IF ev.isText THEN "text" ELSE ev.intent.kind,
     !.key = IF ev.intent.kind = "button" THEN ev.intent.id ELSE -1]

NoScenario ==
  [step |-> 0, answerer |-> "", details |-> "", position |-> "", tasks |-> 0,
   sens |-> "", anon |-> "", kind |-> "", typed |-> ""]

CreateTaskCalls(calls) == {i \in 1..Len(calls) : calls[i].op = "create_task"}

\* Progress through the scenario: from an idle context /question, a free
\* text, one of the three answerer intents, a free text, not_sensitive, then
\* nearby or anywhere, with nothing in between.  It follows the events alone
\* and counts the create_task calls of the turns of the scenario.
ScenarioStep(sc, c, ev, calls) ==
  LET named == ev.intent.kind = "named"
      n == Cardinality(CreateTaskCalls(calls))
  IN IF named /\ ev.intent.name = INTENT_QUESTION
        /\ ~has_static_state(c, CONTEXT_CURRENT_STATE)
     THEN [NoScenario EXCEPT !.step = 1, !.tasks = n]
     ELSE IF sc.step = 1 /\ ev.isText
     THEN [sc EXCEPT !.step = 2, !.tasks = @ + n]
     ELSE IF sc.step = 2 /\ named
             /\ ev.intent.name \in {INTENT_ASK_TO_DIFFERENT, INTENT_ASK_TO_SIMILAR,
                                    INTENT_ASK_TO_ANYONE}
     THEN [sc EXCEPT !.step = 3, !.answerer = ev.intent.name, !.tasks = @ + n]
     ELSE IF sc.step = 3 /\ ev.isText
     THEN [sc EXCEPT !.step = 4, !.details = ev.text, !.tasks = @ + n]
     ELSE IF sc.step = 4 /\ named /\ ev.intent.name = INTENT_NOT_SENSITIVE_QUESTION
     THEN [sc EXCEPT !.step = 5, !.tasks = @ + n]
     ELSE IF sc.step = 5 /\ named
             /\ ev.intent.name \in {INTENT_ASK_TO_NEARBY, INTENT_ASK_TO_ANYWHERE}
     THEN [sc EXCEPT !.step = 6, !.position = ev.intent.name, !.tasks = @ + n]
     ELSE NoScenario

\* The payload of the button a click finds in cache ch (None on a miss or
\* when the event is no click).
ClickedPayload(ch, ev) ==
  IF ev.intent.kind = "button" /\ cache_has(ch, ev.intent.id)
  THEN from_repr(cache_get(ch, ev.intent.id))
  ELSE None

CreateTransactionCalls(calls) ==
  {i \in 1..Len(calls) : calls[i].op = "create_task_transaction"}

NoAnswerScenario ==
  [step |-> 0, task |-> 0, text |-> "", choice |-> "", calls |-> 0, typed |-> ""]

\* Progress through the scenario of the answer to a sensitive question: a
\* click on an answer button whose payload marks the question sensitive, a
\* free text, then answer_anonymously or answer_not_anonymously, with nothing
\* in between.  It follows the events alone and counts the
\* create_task_transaction calls of the turns of the scenario.
AnswerScenarioStep(sc, h, ev, r) ==
  LET named == ev.intent.kind = "named"
      n == Cardinality(CreateTransactionCalls(r.calls))
      bp == IF h = "handle_button_with_payload" THEN ClickedPayload(cache, ev) ELSE None
  IN IF bp # None /\ bp[2] = INTENT_ANSWER_QUESTION /\ PayloadSensitive(bp[1])
     THEN [NoAnswerScenario EXCEPT !.step = 1, !.task = bp[1].task_id, !.calls = n]
     ELSE IF sc.step = 1 /\ ev.isText
     THEN [sc EXCEPT !.step = 2, !.text = ev.text, !.calls = @ + n]
     ELSE IF sc.step = 2 /\ named
             /\ ev.intent.name \in {INTENT_ANSWER_ANONYMOUSLY, INTENT_ANSWER_NOT_ANONYMOUSLY}
     THEN [sc EXCEPT !.step = 3, !.choice = ev.intent.name, !.calls = @ + n]
     ELSE NoAnswerScenario

\* The text the most recent turn of action_answer_sensitive_question took
\* (typed), kept in scenario sc; old is the scenario before the turn that
\* handler h took.
AnswerTyped(sc, old, h, ev) ==
  [sc EXCEPT !.typed = IF h = "action_answer_sensitive_question" /\ ev.isText
                       THEN ev.text ELSE old.typed]

\* The turns of the flow under way, counted in the step of scenario sc: a
\* turn that begins without current_state is the first.
TurnCount(sc, c) ==
  IF has_static_state(c, CONTEXT_CURRENT_STATE)
  THEN [sc EXCEPT !.step = @ + 1]
  ELSE [NoScenario EXCEPT !.step = 1]

\* The choices of the question flow under way, kept in scenario sc: what the
\* user chose in question_2 (kind), in question_4 (sens) and in question_4_1
\* (anon), "" when the
\* flow that the last /question or /question_first began has not come to the
\* choice.  old is the scenario before the turn that handler h took.
FlowChoices(sc, old, h, ev) ==
  LET intent == IntentValue(ev.intent)
      anonymity == {INTENT_ANONYMOUS_QUESTION, INTENT_NOT_ANONYMOUS_QUESTION}
      kept == [sc EXCEPT !.sens = old.sens, !.anon = old.anon, !.kind = old.kind]
  IN CASE h = "action_question" -> [sc EXCEPT !.sens = "", !.anon = "", !.kind = ""]
       [] h = "action_question_3" -> [kept EXCEPT !.kind = intent]
       [] h = "action_question_4_1" -> [kept EXCEPT !.sens = intent]
       [] h = "action_question_5" /\ intent \in anonymity -> [kept EXCEPT !.anon = intent]
       [] h = "action_question_5" /\ intent \notin anonymity -> [kept EXCEPT !.sens = intent]
       [] OTHER -> kept

\* ------------------------------------------------------ the state machine

\* The two clicks the interleaved specification keeps in flight.
Clicks == {1, 2}

\* A click at rest: pc is where its execution of handle_button_with_payload
\* stands, key the button it names, bp what cache.get returned, todo the
\* keys still to remove, and group (ghost) the group it hit.
IdleClick == [pc |-> "idle", key |-> 0, bp |-> <<>>, todo |-> <<>>, group |-> {}]

Init ==
  /\ ctx = [wenet_user_id |-> UserId]
  /\ cache = EmptyDict
  /\ nextKey = 1
  /\ flags = {}
  /\ groupOf = EmptyDict
  /\ consumed = {}
  /\ offered = EmptyDict
  /\ last = LastOf("init", "", Start(EmptyContext, EmptyDict, 1, {}, EmptyDict, {}, EmptyDict))
  /\ scen = NoScenario
  /\ clk = [p \in Clicks |-> IdleClick]

Here == Start(ctx, cache, nextKey, flags, groupOf, consumed, offered)

\* The stores after a turn.  A turn that would draw more keys than the
\* specification hands out is not taken.
Commit(r, maxKey) ==
  /\ r.nextKey <= maxKey + 1
  /\ ctx' = r.ctx
  /\ cache' = r.cache
  /\ nextKey' = r.nextKey
  /\ flags' = r.flags
  /\ groupOf' = r.groupOf
  /\ consumed' = r.consumed
  /\ offered' = [k \in DOMAIN r.cache |-> r.offered[k]]

\* The intent of the payload a click finds in the cache (None on a miss).
ClickedIntent(ev) ==
  IF ev.intent.kind = "button" /\ cache_has(cache, ev.intent.id)
  THEN from_repr(cache_get(cache, ev.intent.id))[2]
  ELSE None

\* The turn calls the task service, which accepts the call or not.
CallsService(h, ev) ==
  \/ h \in {"action_question_6", "action_answer_question_2",
            "action_answer_question_anonymously"}
  \/ /\ h = "handle_button_with_payload"
     /\ ClickedIntent(ev) \in {INTENT_ASK_MORE_ANSWERS, INTENT_BEST_ANSWER,
                               INTENT_ANSWER_NOT, INTENT_REPORT_ABUSIVE,
                               INTENT_REPORT_SPAM}

\* The turn draws random.randint.
DrawsRandom(h, ev) ==
  h = "handle_button_with_payload" /\ ClickedIntent(ev) = INTENT_ANSWER_QUESTION

\* No click is in flight: the turn is taken whole.
AtRest == \A p \in Clicks : clk[p].pc = "idle"

\* The router gives the event to handler h.
Routed(h, ev) == Route(ev.intent, ctx) = h

\* One turn of the user, given to handler h; follow names the scenario the
\* ghost scen follows ("question", "answer" or "none").
UserTurn(h, ev, maxKey, follow) ==
    /\ AtRest
    /\ \E ok \in (IF CallsService(h, ev) THEN BOOLEAN ELSE {TRUE}),
          rnd \in (IF DrawsRandom(h, ev) THEN BOOLEAN ELSE {FALSE}),
          hasTasks \in (IF h = "action_answer" THEN BOOLEAN ELSE {FALSE}),
          proposed \in (IF h = "action_answer" THEN Proposals ELSE {<<>>}) :
         LET r == Handle(h, Here, ev, ok, rnd, hasTasks, proposed)
         IN /\ Commit(r, maxKey)
            /\ last' = LastUser("user", h, ev, r)
            /\ scen' = CASE follow = "question" ->
                            FlowChoices(ScenarioStep(scen, ctx, ev, r.calls), scen, h, ev)
                          [] follow = "answer" ->
                               AnswerTyped(AnswerScenarioStep(scen, h, ev, r), scen, h, ev)
                          [] follow = "turns" -> TurnCount(scen, ctx)
                          [] OTHER -> scen
            /\ UNCHANGED clk

\* A push of the task service handled by handle_wenet_message; expiries holds
\* the reads (0: none) at which the authentication can have expired.
PushTurnIn(msg, maxKey, expiries) ==
  \E authExpired \in expiries :
  \E txKnown \in (IF msg.kind = "AnsweredQuestionMessage" /\ authExpired = 0
                   THEN BOOLEAN ELSE {TRUE}) :
    LET r == handle_wenet_message(Here, msg, authExpired, txKnown)
    IN /\ Commit(r, maxKey)
       /\ last' = LastPush("handle_wenet_message", msg, r)
       /\ scen' = NoScenario
       /\ UNCHANGED clk

PushTurn(msg, maxKey) == PushTurnIn(msg, maxKey, 0..Len(ServiceReads(msg.kind)))

\* A textual push handled by handle_wenet_textual_message.
TextualPushTurn(maxKey) ==
  LET r == handle_wenet_textual_message(Here, "text")
  IN /\ Commit(r, maxKey)
     /\ last' = LastOf("push", "handle_wenet_textual_message", r)
     /\ scen' = NoScenario
     /\ UNCHANGED clk

\* The time-to-live of the entries that one call cached together elapses.
Expire ==
  \E k \in DOMAIN cache :
    /\ AtRest
    /\ cache' = [x \in (DOMAIN cache) \ groupOf[k] |-> cache[x]]
    /\ offered' = [x \in (DOMAIN cache) \ groupOf[k] |-> offered[x]]
    /\ last' = LastOf("expire", "", Here)
    /\ UNCHANGED <<ctx, nextKey, flags, groupOf, consumed, scen, clk>>

\* ------------------------------------------- Spec: both flows, one user

\* Spec takes every turn whole, one after the other: the user walks one
\* path through each flow, the task service pushes messages of every kind.
SpecTexts == {"t1"}

SpecIntents ==
  { INTENT_QUESTION, INTENT_ASK_TO_ANYONE, INTENT_SENSITIVE_QUESTION,
    INTENT_ANONYMOUS_QUESTION, INTENT_ASK_TO_NEARBY, INTENT_ANSWER_ANONYMOUSLY,
    INTENT_PROFILE }

SpecEvents == UserEvents(SpecTexts, SpecIntents, MaxKeys)

Question ==
  \E ev \in SpecEvents :
    /\ Routed("action_question", ev)
    /\ UserTurn("action_question", ev, MaxKeys, "none")

Question2 ==
  \E ev \in SpecEvents :
    /\ Routed("action_question_2", ev)
    /\ UserTurn("action_question_2", ev, MaxKeys, "none")

Question3 ==
  \E ev \in SpecEvents :
    /\ Routed("action_question_3", ev)
    /\ UserTurn("action_question_3", ev, MaxKeys, "none")

Question4 ==
  \E ev \in SpecEvents :
    /\ Routed("action_question_4", ev)
    /\ UserTurn("action_question_4", ev, MaxKeys, "none")

Question41 ==
  \E ev \in SpecEvents :
    /\ Routed("action_question_4_1", ev)
    /\ UserTurn("action_question_4_1", ev, MaxKeys, "none")

Question5 ==
  \E ev \in SpecEvents :
    /\ Routed("action_question_5", ev)
    /\ UserTurn("action_question_5", ev, MaxKeys, "none")

Question6 ==
  \E ev \in SpecEvents :
    /\ Routed("action_question_6", ev)
    /\ UserTurn("action_question_6", ev, MaxKeys, "none")

AnswerSensitiveQuestion ==
  \E ev \in SpecEvents :
    /\ Routed("action_answer_sensitive_question", ev)
    /\ UserTurn("action_answer_sensitive_question", ev, MaxKeys, "none")

AnswerQuestion2 ==
  \E ev \in SpecEvents :
    /\ Routed("action_answer_question_2", ev)
    /\ UserTurn("action_answer_question_2", ev, MaxKeys, "none")

AnswerQuestionAnonymously ==
  \E ev \in SpecEvents :
    /\ Routed("action_answer_question_anonymously", ev)
    /\ UserTurn("action_answer_question_anonymously", ev, MaxKeys, "none")

ButtonWithPayload ==
  \E ev \in SpecEvents :
    /\ Routed("handle_button_with_payload", ev)
    /\ UserTurn("handle_button_with_payload", ev, MaxKeys, "none")

NoFulfiller ==
  \E ev \in SpecEvents :
    /\ Routed(NO_FULFILLER, ev)
    /\ UserTurn(NO_FULFILLER, ev, MaxKeys, "none")

WenetMessageTurn ==
  \E msg \in WenetMessages(MessageKinds) : AtRest /\ PushTurn(msg, MaxKeys)

WenetTextualMessageTurn == AtRest /\ TextualPushTurn(MaxKeys)

Next ==
  \/ Question
  \/ Question2
  \/ Question3
  \/ Question4
  \/ Question41
  \/ Question5
  \/ Question6
  \/ AnswerSensitiveQuestion
  \/ AnswerQuestion2
  \/ AnswerQuestionAnonymously
  \/ ButtonWithPayload
  \/ NoFulfiller
  \/ WenetMessageTurn
  \/ WenetTextualMessageTurn
  \/ Expire

Spec == Init /\ [][Next]_vars

\* ------------------------------------- SpecQuestion: the question flow

\* SpecQuestion gives the user every choice of the question flow and two
\* texts; the task service pushes answers to the user's first question,
\* whose buttons the user can click at any point of the flow.
QuestionIntents ==
  { INTENT_QUESTION, INTENT_QUESTION_FIRST, INTENT_ASK_TO_DIFFERENT,
    INTENT_ASK_TO_SIMILAR, INTENT_ASK_TO_ANYONE, INTENT_SENSITIVE_QUESTION,
    INTENT_NOT_SENSITIVE_QUESTION, INTENT_ANONYMOUS_QUESTION,
    INTENT_NOT_ANONYMOUS_QUESTION, INTENT_ASK_TO_NEARBY, INTENT_ASK_TO_ANYWHERE }

QuestionEvents == UserEvents(Texts, QuestionIntents, MaxKeysQuestion)

FlowQuestion ==
  \E ev \in QuestionEvents :
    /\ Routed("action_question", ev)
    /\ UserTurn("action_question", ev, MaxKeysQuestion, "question")

FlowQuestion2 ==
  \E ev \in QuestionEvents :
    /\ Routed("action_question_2", ev)
    /\ UserTurn("action_question_2", ev, MaxKeysQuestion, "question")

FlowQuestion3 ==
  \E ev \in QuestionEvents :
    /\ Routed("action_question_3", ev)
    /\ UserTurn("action_question_3", ev, MaxKeysQuestion, "question")

FlowQuestion4 ==
  \E ev \in QuestionEvents :
    /\ Routed("action_question_4", ev)
    /\ UserTurn("action_question_4", ev, MaxKeysQuestion, "question")

FlowQuestion41 ==
  \E ev \in QuestionEvents :
    /\ Routed("action_question_4_1", ev)
    /\ UserTurn("action_question_4_1", ev, MaxKeysQuestion, "question")

FlowQuestion5 ==
  \E ev \in QuestionEvents :
    /\ Routed("action_question_5", ev)
    /\ UserTurn("action_question_5", ev, MaxKeysQuestion, "question")

FlowQuestion6 ==
  \E ev \in QuestionEvents :
    /\ Routed("action_question_6", ev)
    /\ UserTurn("action_question_6", ev, MaxKeysQuestion, "question")

FlowButtonWithPayload ==
  \E ev \in QuestionEvents :
    /\ Routed("handle_button_with_payload", ev)
    /\ UserTurn("handle_button_with_payload", ev, MaxKeysQuestion, "question")

FlowNoFulfiller ==
  \E ev \in QuestionEvents :
    /\ Routed(NO_FULFILLER, ev)
    /\ UserTurn(NO_FULFILLER, ev, MaxKeysQuestion, "question")

FlowAnsweredMessage ==
  \E msg \in AnswersTo(1) : AtRest /\ PushTurn(msg, MaxKeysQuestion)

NextQuestion ==
  \/ FlowQuestion
  \/ FlowQuestion2
  \/ FlowQuestion3
  \/ FlowQuestion4
  \/ FlowQuestion41
  \/ FlowQuestion5
  \/ FlowQuestion6
  \/ FlowButtonWithPayload
  \/ FlowNoFulfiller
  \/ FlowAnsweredMessage

SpecQuestion == Init /\ [][NextQuestion]_vars

\* ----------------------------------------- SpecAnswer: the answer flow

\* SpecAnswer gives the user every choice of the answer flow and two texts:
\* the task service offers questions, the user clicks the buttons of the
\* offers (answer, remind me later, not answer, report) and answers.
AnswerIntents == {INTENT_ANSWER_ANONYMOUSLY, INTENT_ANSWER_NOT_ANONYMOUSLY}

AnswerEvents == UserEvents(Texts, AnswerIntents, MaxKeysAnswer)

FlowAnswerSensitiveQuestion ==
  \E ev \in AnswerEvents :
    /\ Routed("action_answer_sensitive_question", ev)
    /\ UserTurn("action_answer_sensitive_question", ev, MaxKeysAnswer, "answer")

FlowAnswerQuestion2 ==
  \E ev \in AnswerEvents :
    /\ Routed("action_answer_question_2", ev)
    /\ UserTurn("action_answer_question_2", ev, MaxKeysAnswer, "answer")

FlowAnswerQuestionAnonymously ==
  \E ev \in AnswerEvents :
    /\ Routed("action_answer_question_anonymously", ev)
    /\ UserTurn("action_answer_question_anonymously", ev, MaxKeysAnswer, "answer")

FlowAnswerButtonWithPayload ==
  \E ev \in AnswerEvents :
    /\ Routed("handle_button_with_payload", ev)
    /\ UserTurn("handle_button_with_payload", ev, MaxKeysAnswer, "answer")

FlowAnswerNoFulfiller ==
  \E ev \in AnswerEvents :
    /\ Routed(NO_FULFILLER, ev)
    /\ UserTurn(NO_FULFILLER, ev, MaxKeysAnswer, "answer")

FlowAnswerOffer ==
  \E msg \in WenetMessages({"QuestionToAnswerMessage"}) :
    AtRest /\ PushTurn(msg, MaxKeysAnswer)

NextAnswer ==
  \/ FlowAnswerSensitiveQuestion
  \/ FlowAnswerQuestion2
  \/ FlowAnswerQuestionAnonymously
  \/ FlowAnswerButtonWithPayload
  \/ FlowAnswerNoFulfiller
  \/ FlowAnswerOffer

SpecAnswer == Init /\ [][NextAnswer]_vars

\* ------------------------------ SpecProposals: /answer and its proposals

\* SpecProposals lets the user send /answer, click the numbered proposals and
\* the buttons of the offers the task service pushes, and answer with a text;
\* the reads of the task service all return.
ProposalsEvents == UserEvents(SpecTexts, {INTENT_ANSWER}, MaxKeysProposals)

ProposalsAnswer ==
  \E ev \in ProposalsEvents :
    /\ Routed("action_answer", ev)
    /\ UserTurn("action_answer", ev, MaxKeysProposals, "none")

ProposalsButtonWithPayload ==
  \E ev \in ProposalsEvents :
    /\ Routed("handle_button_with_payload", ev)
    /\ UserTurn("handle_button_with_payload", ev, MaxKeysProposals, "none")

ProposalsAnswerSensitiveQuestion ==
  \E ev \in ProposalsEvents :
    /\ Routed("action_answer_sensitive_question", ev)
    /\ UserTurn("action_answer_sensitive_question", ev, MaxKeysProposals, "none")

ProposalsAnswerQuestion2 ==
  \E ev \in ProposalsEvents :
    /\ Routed("action_answer_question_2", ev)
    /\ UserTurn("action_answer_question_2", ev, MaxKeysProposals, "none")

ProposalsNoFulfiller ==
  \E ev \in ProposalsEvents :
    /\ Routed(NO_FULFILLER, ev)
    /\ UserTurn(NO_FULFILLER, ev, MaxKeysProposals, "none")

ProposalsOffer ==
  \E msg \in WenetMessages({"QuestionToAnswerMessage"}) :
    AtRest /\ PushTurnIn(msg, MaxKeysProposals, {0})

NextProposals ==
  \/ ProposalsAnswer
  \/ ProposalsButtonWithPayload
  \/ ProposalsAnswerSensitiveQuestion
  \/ ProposalsAnswerQuestion2
  \/ ProposalsNoFulfiller
  \/ ProposalsOffer

SpecProposals == Init /\ [][NextProposals]_vars

\* --------------------------------- SpecFirstAnswer: the first-answer flag

\* SpecFirstAnswer calls is_first_answer for the users of a small set, one
\* call after the other, and keeps in scen the user and the result of every
\* call made.
FirstAnswerUsers == {"u1", "u2"}

InitFirstAnswer ==
  /\ ctx = [wenet_user_id |-> UserId]
  /\ cache = EmptyDict
  /\ nextKey = 1
  /\ flags = {}
  /\ groupOf = EmptyDict
  /\ consumed = {}
  /\ offered = EmptyDict
  /\ last = LastOf("init", "", Start(EmptyContext, EmptyDict, 1, {}, EmptyDict, {}, EmptyDict))
  /\ scen = <<>>
  /\ clk = [p \in Clicks |-> IdleClick]

\* One call of is_first_answer(user): the entry is read and, when it is
\* absent, written.
FirstAnswerCall ==
  \E user \in FirstAnswerUsers :
    /\ Len(scen) < MaxFirstAnswerCalls
    /\ LET first == is_first_answer(Here, user)
           r == IF first THEN mark_first_answer(Here, user) ELSE Here
       IN /\ Commit(r, 0)
          /\ last' = LastOf("call", "is_first_answer", r)
          /\ scen' = Append(scen, [user |-> user, first |-> first])
          /\ UNCHANGED clk

NextFirstAnswer == FirstAnswerCall

SpecFirstAnswer == InitFirstAnswer /\ [][NextFirstAnswer]_vars

\* ------------------------------------- SpecCancel: flows that are cancelled

\* SpecCancel lets the user go through the question flow and the answer flow
\* with one text, click the buttons of the offers of the task service, and
\* cancel at any moment: cancel_action is the handler of the cancel intent
\* (the option "cancel" of the report message carries it), whatever state the
\* user is in.  The ghost scen follows the answer to a sensitive question and
\* a cancellation leaves it where it stands.
INTENT_CANCEL == "cancel"

CancelEvents == UserEvents({"t1"}, QuestionIntents \cup AnswerIntents, MaxKeysCancel)

CancelQuestion ==
  \E ev \in CancelEvents :
    /\ Routed("action_question", ev)
    /\ UserTurn("action_question", ev, MaxKeysCancel, "answer")

CancelQuestion2 ==
  \E ev \in CancelEvents :
    /\ Routed("action_question_2", ev)
    /\ UserTurn("action_question_2", ev, MaxKeysCancel, "answer")

CancelQuestion3 ==
  \E ev \in CancelEvents :
    /\ Routed("action_question_3", ev)
    /\ UserTurn("action_question_3", ev, MaxKeysCancel, "answer")

CancelQuestion4 ==
  \E ev \in CancelEvents :
    /\ Routed("action_question_4", ev)
    /\ UserTurn("action_question_4", ev, MaxKeysCancel, "answer")

CancelQuestion41 ==
  \E ev \in CancelEvents :
    /\ Routed("action_question_4_1", ev)
    /\ UserTurn("action_question_4_1", ev, MaxKeysCancel, "answer")

CancelQuestion5 ==
  \E ev \in CancelEvents :
    /\ Routed("action_question_5", ev)
    /\ UserTurn("action_question_5", ev, MaxKeysCancel, "answer")

CancelQuestion6 ==
  \E ev \in CancelEvents :
    /\ Routed("action_question_6", ev)
    /\ UserTurn("action_question_6", ev, MaxKeysCancel, "answer")

CancelAnswerSensitiveQuestion ==
  \E ev \in CancelEvents :
    /\ Routed("action_answer_sensitive_question", ev)
    /\ UserTurn("action_answer_sensitive_question", ev, MaxKeysCancel, "answer")

CancelAnswerQuestion2 ==
  \E ev \in CancelEvents :
    /\ Routed("action_answer_question_2", ev)
    /\ UserTurn("action_answer_question_2", ev, MaxKeysCancel, "answer")

CancelAnswerQuestionAnonymously ==
  \E ev \in CancelEvents :
    /\ Routed("action_answer_question_anonymously", ev)
    /\ UserTurn("action_answer_question_anonymously", ev, MaxKeysCancel, "answer")

CancelButtonWithPayload ==
  \E ev \in CancelEvents :
    /\ Routed("handle_button_with_payload", ev)
    /\ UserTurn("handle_button_with_payload", ev, MaxKeysCancel, "answer")

CancelOffer ==
  \E msg \in WenetMessages({"QuestionToAnswerMessage"}) :
    AtRest /\ PushTurnIn(msg, MaxKeysCancel, {0})

\* The user cancels.
CancelAction ==
  LET ev == IntentEvent(NamedIntent(INTENT_CANCEL))
      r == cancel_action(Here, ev, INTENT_CANCEL)
  IN /\ AtRest
     /\ Commit(r, MaxKeysCancel)
     /\ last' = LastUser("user", "cancel_action", ev, r)
     /\ UNCHANGED <<scen, clk>>

NextCancel ==
  \/ CancelQuestion
  \/ CancelQuestion2
  \/ CancelQuestion3
  \/ CancelQuestion4
  \/ CancelQuestion41
  \/ CancelQuestion5
  \/ CancelQuestion6
  \/ CancelAnswerSensitiveQuestion
  \/ CancelAnswerQuestion2
  \/ CancelAnswerQuestionAnonymously
  \/ CancelButtonWithPayload
  \/ CancelOffer
  \/ CancelAction

SpecCancel == Init /\ [][NextCancel]_vars

\* ----------------------------- SpecTermination: flows followed to their end

\* In SpecTermination the user supplies nothing but the input the current
\* state accepts, and nothing comes in between: when idle the user begins a
\* question flow (/question, /question_first), asks for proposals (/answer)
\* or clicks the answer button of an offer or of a proposal, and the task
\* service offers questions to an idle user only.  The ghost scen counts in
\* its step the turns of the flow under way.
AnswererIntents == {INTENT_ASK_TO_DIFFERENT, INTENT_ASK_TO_SIMILAR, INTENT_ASK_TO_ANYONE}

PositionIntents == {INTENT_ASK_TO_NEARBY, INTENT_ASK_TO_ANYWHERE}

\* The buttons in the cache that begin an answer flow.
AnswerButtons ==
  {k \in DOMAIN cache :
     cache[k].intent \in {INTENT_ANSWER_QUESTION, INTENT_ANSWER_PICKED_QUESTION}}

NamedEvents(names) == {IntentEvent(NamedIntent(n)) : n \in names}

\* The events the current state accepts.
AcceptedEvents ==
  LET st == get_static_state(ctx, CONTEXT_CURRENT_STATE, None)
  IN CASE st = None ->
            NamedEvents({INTENT_QUESTION, INTENT_QUESTION_FIRST, INTENT_ANSWER})
              \cup {IntentEvent(ButtonIntent(k)) : k \in AnswerButtons}
       [] st \in {STATE_QUESTION_1, STATE_QUESTION_3, STATE_ANSWERING,
                   STATE_ANSWERING_SENSITIVE} -> {TextEvent(t) : t \in SpecTexts}
       [] st = STATE_QUESTION_2 -> NamedEvents(AnswererIntents)
       [] st = STATE_QUESTION_4 ->
            NamedEvents({INTENT_SENSITIVE_QUESTION, INTENT_NOT_SENSITIVE_QUESTION})
       [] st = STATE_QUESTION_4_1 ->
            NamedEvents({INTENT_ANONYMOUS_QUESTION, INTENT_NOT_ANONYMOUS_QUESTION})
       [] st = STATE_QUESTION_5 -> NamedEvents(PositionIntents)
       [] st = STATE_ANSWERING_ANONYMOUSLY ->
            NamedEvents({INTENT_ANSWER_ANONYMOUSLY, INTENT_ANSWER_NOT_ANONYMOUSLY})
       [] OTHER -> {}

TerminationQuestion ==
  \E ev \in AcceptedEvents :
    /\ Routed("action_question", ev)
    /\ UserTurn("action_question", ev, MaxKeysTermination, "turns")

TerminationQuestion2 ==
  \E ev \in AcceptedEvents :
    /\ Routed("action_question_2", ev)
    /\ UserTurn("action_question_2", ev, MaxKeysTermination, "turns")

TerminationQuestion3 ==
  \E ev \in AcceptedEvents :
    /\ Routed("action_question_3", ev)
    /\ UserTurn("action_question_3", ev, MaxKeysTermination, "turns")

TerminationQuestion4 ==
  \E ev \in AcceptedEvents :
    /\ Routed("action_question_4", ev)
    /\ UserTurn("action_question_4", ev, MaxKeysTermination, "turns")

TerminationQuestion41 ==
  \E ev \in AcceptedEvents :
    /\ Routed("action_question_4_1", ev)
    /\ UserTurn("action_question_4_1", ev, MaxKeysTermination, "turns")

TerminationQuestion5 ==
  \E ev \in AcceptedEvents :
    /\ Routed("action_question_5", ev)
    /\ UserTurn("action_question_5", ev, MaxKeysTermination, "turns")

TerminationQuestion6 ==
  \E ev \in AcceptedEvents :
    /\ Routed("action_question_6", ev)
    /\ UserTurn("action_question_6", ev, MaxKeysTermination, "turns")

TerminationAnswerSensitiveQuestion ==
  \E ev \in AcceptedEvents :
    /\ Routed("action_answer_sensitive_question", ev)
    /\ UserTurn("action_answer_sensitive_question", ev, MaxKeysTermination, "turns")

TerminationAnswerQuestion2 ==
  \E ev \in AcceptedEvents :
    /\ Routed("action_answer_question_2", ev)
    /\ UserTurn("action_answer_question_2", ev, MaxKeysTermination, "turns")

TerminationAnswerQuestionAnonymously ==
  \E ev \in AcceptedEvents :
    /\ Routed("action_answer_question_anonymously", ev)
    /\ UserTurn("action_answer_question_anonymously", ev, MaxKeysTermination, "turns")

TerminationButtonWithPayload ==
  \E ev \in AcceptedEvents :
    /\ Routed("handle_button_with_payload", ev)
    /\ UserTurn("handle_button_with_payload", ev, MaxKeysTermination, "turns")

TerminationAnswer ==
  \E ev \in AcceptedEvents :
    /\ Routed("action_answer", ev)
    /\ UserTurn("action_answer", ev, MaxKeysTermination, "turns")

TerminationOffer ==
  \E msg \in WenetMessages({"QuestionToAnswerMessage"}) :
    /\ AtRest
    /\ ~has_static_state(ctx, CONTEXT_CURRENT_STATE)
    /\ PushTurnIn(msg, MaxKeysTermination, {0})

NextTermination ==
  \/ TerminationQuestion
  \/ TerminationQuestion2
  \/ TerminationQuestion3
  \/ TerminationQuestion4
  \/ TerminationQuestion41
  \/ TerminationQuestion5
  \/ TerminationQuestion6
  \/ TerminationAnswerSensitiveQuestion
  \/ TerminationAnswerQuestion2
  \/ TerminationAnswerQuestionAnonymously
  \/ TerminationButtonWithPayload
  \/ TerminationAnswer
  \/ TerminationOffer

\* The user keeps supplying the input: a turn that can be taken is taken.
SpecTermination == Init /\ [][NextTermination]_vars /\ WF_vars(NextTermination)

\* ------------------------------- SpecGuard: handlers on a damaged context

\* The handlers of the states question_5, answer_2, answer_sensitive and
\* answer_anonymously test the context they are given before they use it.
\* The context comes from a store outside the handler; SpecGuard starts from
\* any context of one of these states that holds some of the keys the flows
\* write there and lacks the others, and gives the user one turn after the
\* other.
GuardKeys(st) ==
  IF st = STATE_QUESTION_5
  THEN {CONTEXT_ASKED_QUESTION, CONTEXT_DESIRED_ANSWERER, CONTEXT_DESIRED_ANSWERER_REASON,
        CONTEXT_SENSITIVE_QUESTION, CONTEXT_ANONYMOUS_QUESTION}
  ELSE {CONTEXT_QUESTION_TO_ANSWER, CONTEXT_ANSWER_TO_QUESTION}

\* The value a flow writes under a key.
GuardValue(k) ==
  CASE k = CONTEXT_DESIRED_ANSWERER -> INTENT_ASK_TO_ANYONE
    [] k = CONTEXT_SENSITIVE_QUESTION -> INTENT_SENSITIVE_QUESTION
    [] k = CONTEXT_ANONYMOUS_QUESTION -> INTENT_ANONYMOUS_QUESTION
    [] k = CONTEXT_QUESTION_TO_ANSWER -> 1
    [] OTHER -> "t1"

GuardContexts ==
  {[k \in {CONTEXT_WENET_USER_ID, CONTEXT_CURRENT_STATE} \cup ks |->
      IF k = CONTEXT_WENET_USER_ID THEN UserId
      ELSE IF k = CONTEXT_CURRENT_STATE THEN st
      ELSE GuardValue(k)] :
     st \in {STATE_QUESTION_5, STATE_ANSWERING, STATE_ANSWERING_SENSITIVE,
             STATE_ANSWERING_ANONYMOUSLY},
     ks \in SUBSET (GuardKeys(STATE_QUESTION_5) \cup GuardKeys(STATE_ANSWERING))} 

InitGuard ==
  /\ ctx \in {c \in GuardContexts :
               (DOMAIN c) \ {CONTEXT_WENET_USER_ID, CONTEXT_CURRENT_STATE}
                 \subseteq GuardKeys(c[CONTEXT_CURRENT_STATE])}
  /\ cache = EmptyDict
  /\ nextKey = 1
  /\ flags = {}
  /\ groupOf = EmptyDict
  /\ consumed = {}
  /\ offered = EmptyDict
  /\ last = LastOf("init", "", Start(EmptyContext, EmptyDict, 1, {}, EmptyDict, {}, EmptyDict))
  /\ scen = NoScenario
  /\ clk = [p \in Clicks |-> IdleClick]

GuardIntents ==
  {INTENT_ASK_TO_NEARBY, INTENT_ASK_TO_ANYWHERE, INTENT_ANSWER_ANONYMOUSLY,
   INTENT_ANSWER_NOT_ANONYMOUSLY}

GuardEvents == UserEvents(SpecTexts, GuardIntents, 0)

GuardQuestion6 ==
  \E ev \in GuardEvents :
    /\ Routed("action_question_6", ev)
    /\ UserTurn("action_question_6", ev, 0, "none")

GuardAnswerSensitiveQuestion ==
  \E ev \in GuardEvents :
    /\ Routed("action_answer_sensitive_question", ev)
    /\ UserTurn("action_answer_sensitive_question", ev, 0, "none")

GuardAnswerQuestion2 ==
  \E ev \in GuardEvents :
    /\ Routed("action_answer_question_2", ev)
    /\ UserTurn("action_answer_question_2", ev, 0, "none")

GuardAnswerQuestionAnonymously ==
  \E ev \in GuardEvents :
    /\ Routed("action_answer_question_anonymously", ev)
    /\ UserTurn("action_answer_question_anonymously", ev, 0, "none")

NextGuard ==
  \/ GuardQuestion6
  \/ GuardAnswerSensitiveQuestion
  \/ GuardAnswerQuestion2
  \/ GuardAnswerQuestionAnonymously

SpecGuard == InitGuard /\ [][NextGuard]_vars

\* ------------------------------------- SpecRace: two clicks interleaved

\* SpecRace runs handle_button_with_payload for two clicks at once, as the
\* threads of the event dispatcher do: the cache get, each cache remove and
\* the dispatch of the action are steps of their own, and the steps of the
\* two clicks interleave.  The task service offers the questions.
RaceOffer ==
  \E msg \in WenetMessages({"QuestionToAnswerMessage"}) :
    AtRest /\ PushTurn(msg, MaxKeysRace)

\* raw_button_payload = self.cache.get(button_id)
ClickGet(p) ==
  \E k \in 1..MaxKeysRace :
    /\ clk[p].pc = "idle"
    /\ clk' = [clk EXCEPT ![p] =
                 IF cache_has(cache, k)
                 THEN LET bp == from_repr(cache_get(cache, k))
                      IN [pc |-> "remove", key |-> k, bp |-> <<bp>>,
                          todo |-> KeysToRemove(k, bp), group |-> {}]
                 ELSE [IdleClick EXCEPT !.pc = "miss", !.key = k]]
    /\ UNCHANGED <<ctx, cache, nextKey, flags, groupOf, consumed, offered, last, scen>>

\* if raw_button_payload is None: the expired message is returned.
ClickExpired(p) ==
  /\ clk[p].pc = "miss"
  /\ clk' = [clk EXCEPT ![p].pc = "done"]
  /\ last' = LastUser("click", "handle_button_with_payload",
                      IntentEvent(ButtonIntent(clk[p].key)),
                      with_message([Here EXCEPT !.hit = "miss"],
                                   "expired_button_message"))
  /\ UNCHANGED <<ctx, cache, nextKey, flags, groupOf, consumed, offered, scen>>

\* self.cache.remove(button_to_remove), one key of the loop.
ClickRemove(p) ==
  /\ clk[p].pc = "remove"
  /\ clk[p].todo # <<>>
  /\ cache' = cache_remove(cache, Head(clk[p].todo))
  /\ offered' = cache_remove(offered, Head(clk[p].todo))
  /\ clk' = [clk EXCEPT ![p].todo = Tail(@)]
  /\ UNCHANGED <<ctx, nextKey, flags, groupOf, consumed, last, scen>>

\* The action of the payload's intent is run.
ClickDispatch(p) ==
  /\ clk[p].pc = "remove"
  /\ clk[p].todo = <<>>
  /\ \E ok \in BOOLEAN, rnd \in BOOLEAN :
       LET group == groupOf[clk[p].key]
           ev == IntentEvent(ButtonIntent(clk[p].key))
           r0 == [Here EXCEPT !.hit = "hit", !.bp = clk[p].bp,
                              !.consumed = @ \cup group]
           r == DispatchButton(r0, ev, clk[p].bp[1], ok, rnd)
       IN /\ Commit(r, MaxKeysRace)
          /\ last' = LastUser("click", "handle_button_with_payload", ev, r)
          /\ clk' = [clk EXCEPT ![p].pc = "done", ![p].group = group]
          /\ UNCHANGED scen

\* The response of the click has been sent.
ClickReturn(p) ==
  /\ clk[p].pc = "done"
  /\ clk' = [clk EXCEPT ![p] = IdleClick]
  /\ UNCHANGED <<ctx, cache, nextKey, flags, groupOf, consumed, offered, last, scen>>

NextRace ==
  \/ RaceOffer
  \/ \E p \in Clicks : ClickGet(p)
  \/ \E p \in Clicks : ClickExpired(p)
  \/ \E p \in Clicks : ClickRemove(p)
  \/ \E p \in Clicks : ClickDispatch(p)
  \/ \E p \in Clicks : ClickReturn(p)

SpecRace == Init /\ [][NextRace]_vars

\* -------------------------------------------------------------- routing

StateOf(c) == get_static_state(c, CONTEXT_CURRENT_STATE, None)

Idle(c) == ~has_static_state(c, CONTEXT_CURRENT_STATE)

\* The rules of the table, by position, whose predicates hold.
MatchingRules(i, c) == {n \in 1..Len(Rules) : RuleMatches(Rules[n], i, c)}

\* The handler of the matching rule registered first.
FirstMatch(i, c) ==
  LET M == MatchingRules(i, c)
  IN IF M = {} THEN NO_FULFILLER
     ELSE Rules[CHOOSE n \in M : \A m \in M : n <= m].handler

\* A context that holds current_state st and nothing else.
ContextIn(st) == IF st = None THEN EmptyContext ELSE [current_state |-> st]

\* FirstMatch for every state and intent.
FirstMatchTable ==
  [st \in ActiveStatuses \cup {None}, i \in Intents |-> FirstMatch(i, ContextIn(st))]

\* Whether a rule registered before the last one matches, for every state
\* and intent.
EarlierMatchTable ==
  [st \in ActiveStatuses \cup {None}, i \in Intents |->
     MatchingRules(i, ContextIn(st)) \cap (1..(Len(Rules) - 1)) # {}]

C2_ButtonRuleLast ==
  /\ Rules[Len(Rules)].handler = "handle_button_with_payload"
  /\ Rules[Len(Rules)].regex
  /\ \A n \in 1..(Len(Rules) - 1) : Rules[n].handler # "handle_button_with_payload"
  /\ \A i \in Intents :
       MatchesButtonRegex(i) =>
         (Route(i, ctx) = "handle_button_with_payload"
            <=> ~EarlierMatchTable[StateOf(ctx), i])

\* C2 witness: a click reached the button handler while the user was in the
\* middle of the question flow.
C2_Witness ==
  /\ last.kind = "user"
  /\ last.handler = "handle_button_with_payload"
  /\ last.event = "button"
  /\ StateOf(ctx) \in {STATE_QUESTION_2, STATE_QUESTION_4, STATE_QUESTION_4_1,
                       STATE_QUESTION_5}

\* ------------------------------------------------------- the question flow

\* C3: after action_question_6 has run, the task created or not, the context
\* holds none of asked_question, desired_answerer, desired_answerer_reason,
\* sensitive_question, anonymous_question and current_state.
C3_QuestionCleanup ==
  (last.kind = "user" /\ last.handler = "action_question_6") =>
    /\ Len(last.calls) = 1
    /\ \A k \in { CONTEXT_ASKED_QUESTION, CONTEXT_DESIRED_ANSWERER,
                  CONTEXT_DESIRED_ANSWERER_REASON, CONTEXT_SENSITIVE_QUESTION,
                  CONTEXT_ANONYMOUS_QUESTION, CONTEXT_CURRENT_STATE } :
         ~has_static_state(ctx, k)

\* C3 witness: action_question_6 has run and create_task raised
\* TaskCreationError.
C3_Witness ==
  /\ last.kind = "user"
  /\ last.handler = "action_question_6"
  /\ Len(last.calls) = 1
  /\ last.calls[1].op = "create_task"
  /\ ~last.calls[1].ok
  /\ last.out = <<"error_task_creation">>

\* ------------------------------------------------------------ the buttons

\* The most recent turn was a click of the user, taken whole.
Clicked == last.kind = "user" /\ last.handler = "handle_button_with_payload"

\* C4: once a click has hit one key of a group of buttons cached together,
\* none of the keys of the group is in the cache, in that state and in every
\* later one, so that a get of any of them misses.
C4_GroupInvalidation ==
  /\ \A k \in consumed : ~cache_has(cache, k)
  /\ (Clicked /\ last.hit = "hit") => groupOf[last.key] \subseteq consumed

\* C4 witness: a click has hit a button that is not the first of a group of
\* four.
C4_Witness ==
  /\ Clicked
  /\ last.hit = "hit"
  /\ Cardinality(groupOf[last.key]) = 4
  /\ \E k \in groupOf[last.key] : k < last.key

FlowKeys ==
  { CONTEXT_ASKED_QUESTION, CONTEXT_DESIRED_ANSWERER, CONTEXT_DESIRED_ANSWERER_REASON,
    CONTEXT_SENSITIVE_QUESTION, CONTEXT_ANONYMOUS_QUESTION, CONTEXT_QUESTION_TO_ANSWER,
    CONTEXT_ANSWER_TO_QUESTION, CONTEXT_PROPOSED_TASKS, CONTEXT_MESSAGE_TO_REPORT,
    CONTEXT_REPORTING_IS_QUESTION, CONTEXT_REPORTING_REASON,
    CONTEXT_ORIGINAL_QUESTION_REPORTING, CONTEXT_CURRENT_STATE }

\* C7: after a push that interrupted the user, none of the keys the flows
\* write is in the context.
C7_PreemptionClearsAll ==
  (last.kind = "push" /\ last.sent # <<>>) =>
    \A k \in FlowKeys : ~has_static_state(ctx, k)

C5_OneHitPerGroup ==
  \A p, q \in Clicks :
    (p # q /\ clk[p].pc = "done" /\ clk[q].pc = "done"
       /\ clk[p].group # {} /\ clk[q].group # {})
      => clk[p].group # clk[q].group

\* ------------------------------------------------- the not-sensitive run

\* C10: when the user has gone from an idle context through /question, a
\* text, an answerer intent, a text, not_sensitive and nearby or anywhere,
\* the run made one create_task call, its attributes are sensitive = false,
\* anonymous = false, the position, the answerer and the details the user
\* gave, and the context is idle.
C10_NotSensitiveRun ==
  scen.step = 6 =>
    /\ scen.tasks = 1
    /\ Len(last.calls) = 1
    /\ last.calls[1].op = "create_task"
    /\ last.calls[1].attributes =
         [kindOfAnswerer |-> scen.answerer, answeredDetails |-> scen.details,
          sensitive |-> FALSE, anonymous |-> FALSE,
          positionOfAnswerer |-> scen.position]
    /\ Idle(ctx)

\* ------------------------------------------------- pushes of the task service

\* The most recent turn was a push handled by handle_wenet_message.
Pushed(l) == l.kind = "push" /\ l.handler = "handle_wenet_message"

\* The reads of the task service (by position) that raised
\* RefreshTokenExpiredError.
ExpiredReads(calls) == {i \in 1..Len(calls) : ~calls[i].ok}

C18_UnknownKindRaises ==
  [][(Pushed(last') /\ last'.msg.kind = "Other" /\ ExpiredReads(last'.calls) = {}) =>
       /\ last'.raised
       /\ last'.sent = <<>>
       /\ last'.out = <<>>
       /\ ctx' = ctx]_vars

\* The intents of the buttons of an offer.
OfferIntents(nearby) ==
  IF nearby
  THEN {INTENT_ANSWER_QUESTION, INTENT_ANSWER_NOT, INTENT_QUESTION_REPORT}
  ELSE {INTENT_ANSWER_QUESTION, INTENT_ANSWER_REMIND_LATER, INTENT_ANSWER_NOT,
        INTENT_QUESTION_REPORT}

\* C19: the offer of a question (all reads of the task service having
\* returned) leaves the entries of the cache as they were and adds three
\* entries when the task asks for a nearby answerer, four otherwise; their
\* keys were never handed out before, and the payload of each holds the same
\* related_buttons, a list without repetition of exactly the new keys.
C19_OfferButtons ==
  [][(Pushed(last') /\ last'.msg.kind = "QuestionToAnswerMessage"
        /\ ExpiredReads(last'.calls) = {}) =>
       LET new == (DOMAIN cache') \ (DOMAIN cache)
           n == IF TaskNearby(last'.msg.task_id) THEN 3 ELSE 4
       IN /\ Cardinality(new) = n
          /\ \A k \in DOMAIN cache : cache_has(cache', k) /\ cache'[k] = cache[k]
          /\ new \cap DOMAIN groupOf = {}
          /\ {cache'[k].intent : k \in new} = OfferIntents(TaskNearby(last'.msg.task_id))
          /\ \A k \in new :
               /\ Len(cache'[k].payload.related_buttons) = n
               /\ SeqRange(cache'[k].payload.related_buttons) = new
               /\ \A j \in new :
                    cache'[j].payload.related_buttons = cache'[k].payload.related_buttons]_vars

\* C19 witness: an offer to a nearby answerer was pushed while the buttons of
\* an earlier group were still in the cache.
C19_Witness ==
  /\ Pushed(last)
  /\ last.msg.kind = "QuestionToAnswerMessage"
  /\ TaskNearby(last.msg.task_id)
  /\ last.out = <<"answer_message_nearby">>
  /\ Cardinality(DOMAIN cache) > 3

\* --------------------------------------------------------- the answer flow

\* C11: when the user has clicked an answer button whose payload marks the
\* question sensitive, has sent a free text T and has then chosen
\* answer_anonymously or answer_not_anonymously, the three turns made one
\* create_task_transaction call, for the question of the button, with label
\* answerTransaction and attributes answer = T and anonymous = true exactly
\* when the choice was answer_anonymously.
C11_SensitiveAnswerRun ==
  scen.step = 3 =>
    /\ scen.calls = 1
    /\ Len(last.calls) = 1
    /\ last.calls[1].op = "create_task_transaction"
    /\ last.calls[1].task_id = scen.task
    /\ last.calls[1].label = LABEL_ANSWER_TRANSACTION
    /\ last.calls[1].attributes =
         [answer |-> scen.text, anonymous |-> (scen.choice = INTENT_ANSWER_ANONYMOUSLY)]

\* C11 witness: the run has ended with answer_not_anonymously, the second of
\* the texts, and a transaction the task service accepted, after the user had
\* answered another question before.
C11_Witness ==
  /\ scen.step = 3
  /\ scen.choice = INTENT_ANSWER_NOT_ANONYMOUSLY
  /\ scen.text = "t2"
  /\ Len(last.calls) = 1
  /\ last.calls[1].ok
  /\ has_static_state(ctx, CONTEXT_ANSWER_TO_QUESTION)
  /\ consumed # groupOf[1]

\* The answer transactions (by position) among the calls of a turn.
AnswerTransactions(calls) ==
  {i \in CreateTransactionCalls(calls) : calls[i].label = LABEL_ANSWER_TRANSACTION}

\* C12: an answer transaction the task service accepts for a question it
\* marks sensitive is created by action_answer_question_anonymously alone,
\* the handler of state answer_anonymously, which is entered from
\* answer_sensitive alone.
C12_SensitiveThroughAnonymity ==
  \A i \in AnswerTransactions(last.calls) :
    (last.calls[i].ok /\ TaskSensitive(last.calls[i].task_id)) =>
      last.handler = "action_answer_question_anonymously"

\* C13: after action_answer_question_anonymously has run, and after
\* action_answer_question_2 has run on a free text, the handler has called
\* create_task_transaction once and, the transaction created or not, the
\* context holds neither current_state nor question_to_answer.
C13_AnswerCleanup ==
  (/\ last.kind = "user"
   /\ \/ last.handler = "action_answer_question_anonymously"
      \/ last.handler = "action_answer_question_2" /\ last.event = "text") =>
    /\ Len(last.calls) = 1
    /\ ~has_static_state(ctx, CONTEXT_CURRENT_STATE)
    /\ ~has_static_state(ctx, CONTEXT_QUESTION_TO_ANSWER)

\* C13 witness: action_answer_question_2 has run on a free text and
\* create_task_transaction raised TaskTransactionCreationError.
C13_Witness ==
  /\ last.kind = "user"
  /\ last.handler = "action_answer_question_2"
  /\ last.event = "text"
  /\ Len(last.calls) = 1
  /\ ~last.calls[1].ok
  /\ last.out = <<SOMETHING_WENT_WRONG>>

\* ------------------------------------------------------- errors of a turn

\* The states whose handler expects a free text, each with its handler and
\* with the message the handler returns for any other input.
NonTextStates ==
  {STATE_QUESTION_1, STATE_QUESTION_3, STATE_ANSWERING, STATE_ANSWERING_SENSITIVE}

StateHandler(st) ==
  CASE st = STATE_QUESTION_1 -> "action_question_2"
    [] st = STATE_QUESTION_3 -> "action_question_4"
    [] st = STATE_ANSWERING -> "action_answer_question_2"
    [] st = STATE_ANSWERING_SENSITIVE -> "action_answer_sensitive_question"
    [] OTHER -> ""

NotTextMessage(st) ==
  CASE st = STATE_QUESTION_1 -> "question_is_not_text"
    [] st = STATE_QUESTION_3 -> "answerer_details_are_not_text"
    [] OTHER -> "answerer_is_not_text"

\* What C14 asks of a turn: one message, the error message of the state, no
\* exception, no call of the task service, the context as it was.
Rejected(st, l, c, c1) ==
  /\ l.out = <<NotTextMessage(st)>>
  /\ l.sent = <<>>
  /\ ~l.raised
  /\ l.calls = <<>>
  /\ c1 = c

\* C14 as stated: in the states question_1, question_3, answer_2 and
\* answer_sensitive every input of the user that is not a free text is
\* answered with the error message of the state and changes nothing.
C14_NonTextRejected ==
  [][(last'.kind = "user" /\ StateOf(ctx) \in NonTextStates /\ last'.event # "text") =>
       Rejected(StateOf(ctx), last', ctx, ctx')]_vars

\* C14 amended: in these states every input that is not a free text and
\* that the router gives to the handler of the state is answered with the
\* error message of the state and changes nothing; the inputs the router
\* gives to another handler are the commands /question and /question_first,
\* which the rules registered first give to action_question.
C14_NonTextRejectedByHandler ==
  [][(last'.kind = "user" /\ StateOf(ctx) \in NonTextStates /\ last'.event # "text") =>
       IF last'.handler = StateHandler(StateOf(ctx))
       THEN Rejected(StateOf(ctx), last', ctx, ctx')
       ELSE /\ last'.handler = "action_question"
            /\ last'.event = "named"
            /\ StateOf(ctx') = STATE_QUESTION_1]_vars

\* C14 witness: in state answer_sensitive a second click on the answer
\* button was given to the handler of the state and answered with the error
\* message.
C14_Witness ==
  /\ last.kind = "user"
  /\ last.handler = "action_answer_sensitive_question"
  /\ last.event = "button"
  /\ last.key \in consumed
  /\ last.out = <<"answerer_is_not_text">>
  /\ StateOf(ctx) = STATE_ANSWERING_SENSITIVE

\* The calls of a turn (by position) that ask the task service to create a
\* task or a transaction and that the service rejected.
RejectedCalls(calls) ==
  {i \in CreateTaskCalls(calls) \cup CreateTransactionCalls(calls) : ~calls[i].ok}

\* C15: a turn of the user in which the task service rejected the creation
\* of a task or of a transaction made that call and no other, raised nothing
\* and returned one message: error_task_creation for a task, the
\* try-again-later message for a transaction.
C15_RejectionRecovered ==
  (last.kind = "user" /\ RejectedCalls(last.calls) # {}) =>
    /\ Len(last.calls) = 1
    /\ ~last.raised
    /\ last.sent = <<>>
    /\ last.out = IF last.calls[1].op = "create_task"
                  THEN <<"error_task_creation">>
                  ELSE <<SOMETHING_WENT_WRONG>>

\* C15 witness: the report of an answer was rejected by the task service.
C15_Witness ==
  /\ last.kind = "user"
  /\ Len(last.calls) = 1
  /\ last.calls[1].op = "create_task_transaction"
  /\ last.calls[1].label = LABEL_REPORT_ANSWER_TRANSACTION
  /\ ~last.calls[1].ok
  /\ last.out = <<SOMETHING_WENT_WRONG>>

\* C20: current_state is absent or is one of the nine states of the
\* question flow and the answer flow.
C20_OneNamedState == StateOf(ctx) \in ActiveStatuses \cup {None}

\* C20 witness: the user is in state answer_anonymously while the context
\* still holds the question of a question flow the user left.
C20_Witness ==
  /\ StateOf(ctx) = STATE_ANSWERING_ANONYMOUSLY
  /\ has_static_state(ctx, CONTEXT_ASKED_QUESTION)

\* ------------------------------------------------- keys the context lacks

\* Handler h requires a key that context c does not hold.
MissingRequired(h, c) ==
  \/ /\ h = "action_question_6"
     /\ \E k \in {CONTEXT_ASKED_QUESTION, CONTEXT_DESIRED_ANSWERER,
                   CONTEXT_DESIRED_ANSWERER_REASON, CONTEXT_SENSITIVE_QUESTION} :
          ~has_static_state(c, k)
  \/ /\ h \in {"action_answer_sensitive_question", "action_answer_question_2",
               "action_answer_question_anonymously"}
     /\ ~has_static_state(c, CONTEXT_QUESTION_TO_ANSWER)

\* C16: a turn given to action_question_6 on a context without
\* asked_question, desired_answerer, desired_answerer_reason or
\* sensitive_question, or to one of the three answer handlers on a context
\* without question_to_answer, raises, returns no message, calls the task
\* service not at all and leaves the context and the cache as they were.
C16_MissingKeyRaises ==
  [][(last'.kind = "user" /\ MissingRequired(last'.handler, ctx)) =>
       /\ last'.raised
       /\ last'.out = <<>>
       /\ last'.sent = <<>>
       /\ last'.calls = <<>>
       /\ ctx' = ctx
       /\ cache' = cache]_vars

\* C16 witness: action_question_6 raised on a context that lacks
\* sensitive_question alone.
C16_Witness ==
  /\ last.kind = "user"
  /\ last.handler = "action_question_6"
  /\ last.raised
  /\ has_static_state(ctx, CONTEXT_ASKED_QUESTION)
  /\ has_static_state(ctx, CONTEXT_DESIRED_ANSWERER)
  /\ has_static_state(ctx, CONTEXT_DESIRED_ANSWERER_REASON)
  /\ ~has_static_state(ctx, CONTEXT_SENSITIVE_QUESTION)

\* ------------------------------------------------ the payloads of buttons

\* The most recent turn was a click that found its key in the cache.
Hit(l) == l.kind = "user" /\ l.handler = "handle_button_with_payload" /\ l.hit = "hit"

C22_FirstAnswerOnce ==
  \A i \in 1..Len(scen) :
    scen[i].first = (\A j \in 1..(i - 1) : scen[j].user # scen[i].user)

\* C22 witness: u1 was asked, then u2, then u1 again; the first two calls
\* returned True and the third False.
C22_Witness ==
  /\ Len(scen) = 3
  /\ <<scen[1].user, scen[2].user, scen[3].user>> = <<"u1", "u2", "u1">>
  /\ <<scen[1].first, scen[2].first, scen[3].first>> = <<TRUE, TRUE, FALSE>>

\* ------------------------------------------------------------ remind later

\* The most recent turn was a click that found a button of intent i.
HitOf(l, i) == Hit(l) /\ l.bp[1][2] = i

\* C23: a click on the remind-me-later button of an offer stores an entry
\* under pending_answers with the task id of the offer as its key (the other
\* entries stay), adds to the cache four new buttons (answer, remind later,
\* not answer, report) whose payloads name the same task and one another as
\* related_buttons, leaves no key of the clicked group in the cache, and
\* leaves current_state as it was.
C23_RemindLater ==
  [][HitOf(last', INTENT_ANSWER_REMIND_LATER) =>
       LET t == last'.bp[1][1].task_id
           new == (DOMAIN cache') \ (DOMAIN cache)
           before == get_static_state(ctx, CONTEXT_PENDING_ANSWERS, EmptyDict)
       IN /\ has_static_state(ctx', CONTEXT_PENDING_ANSWERS)
          /\ DOMAIN ctx'[CONTEXT_PENDING_ANSWERS] = (DOMAIN before) \cup {t}
          /\ \A x \in (DOMAIN before) \ {t} : ctx'[CONTEXT_PENDING_ANSWERS][x] = before[x]
          /\ Cardinality(new) = 4
          /\ new \cap DOMAIN groupOf = {}
          /\ {cache'[k].intent : k \in new} = OfferIntents(FALSE)
          /\ \A k \in new : /\ cache'[k].payload.task_id = t
                            /\ SeqRange(cache'[k].payload.related_buttons) = new
          /\ \A k \in groupOf[last'.key] : ~cache_has(cache', k)
          /\ StateOf(ctx') = StateOf(ctx)]_vars

\* C23 witness: the remind-me-later button of the offer of task 1 was clicked;
\* the four keys of the offer are gone, four new ones are cached and task 1 is
\* pending.
C23_Witness ==
  /\ HitOf(last, INTENT_ANSWER_REMIND_LATER)
  /\ last.bp[1][1].task_id = 1
  /\ DOMAIN cache = 5..8
  /\ has_static_state(ctx, CONTEXT_PENDING_ANSWERS)
  /\ DOMAIN ctx[CONTEXT_PENDING_ANSWERS] = {1}

\* ------------------------------------------- the choices of the question flow

\* The most recent turn was the user's and created a task.
Created(l) ==
  /\ l.kind = "user"
  /\ l.handler = "action_question_6"
  /\ Len(l.calls) = 1
  /\ l.calls[1].op = "create_task"
  /\ l.calls[1].ok

\* C24: in state question_4 the intent not_sensitive leads to question_5 and
\* sensitive to question_4_1, where anonymous and not_anonymous lead to
\* question_5; and the task a flow creates has sensitive = true exactly when
\* the user chose sensitive in question_4 of that flow and anonymous = true
\* exactly when the user chose anonymous in question_4_1 of that flow.
C24_SensitiveAnonymousChoices ==
  [][/\ (StateOf(ctx) = STATE_QUESTION_4 /\ last'.kind = "user"
           /\ last'.handler = "action_question_5")
        => StateOf(ctx') = STATE_QUESTION_5
     /\ (StateOf(ctx) = STATE_QUESTION_4 /\ last'.kind = "user"
           /\ last'.handler = "action_question_4_1")
        => StateOf(ctx') = STATE_QUESTION_4_1
     /\ (StateOf(ctx) = STATE_QUESTION_4_1 /\ last'.kind = "user"
           /\ last'.handler = "action_question_5")
        => StateOf(ctx') = STATE_QUESTION_5
     /\ Created(last')
        => /\ last'.calls[1].attributes.sensitive
               = (scen'.sens = INTENT_SENSITIVE_QUESTION)
           /\ last'.calls[1].attributes.anonymous
               = (scen'.anon = INTENT_ANONYMOUS_QUESTION)]_vars

\* C25: a task created by a flow in whose question_4 the user chose
\* not_sensitive has anonymous = false, whatever flows were abandoned,
\* restarted or interrupted before.
C25_NotSensitiveNotAnonymous ==
  [][(Created(last') /\ scen'.sens = INTENT_NOT_SENSITIVE_QUESTION) =>
       ~last'.calls[1].attributes.anonymous]_vars

\* ------------------------------------------------------ restarting a flow

\* What the turn of event ev does to the stores as they are.
TurnOf(ev) == Handle(Route(ev.intent, ctx), Here, ev, TRUE, FALSE, FALSE, <<>>)

\* C26: in every state, idle or inside a flow, each of /question and
\* /question_first is given to action_question, which sets current_state to
\* question_1 and keeps every key the context holds, with its value (but for
\* current_state).
C26_RestartFromAnyState ==
  \A i \in {INTENT_QUESTION, INTENT_QUESTION_FIRST} :
    LET ev == IntentEvent(NamedIntent(i))
        r == TurnOf(ev)
    IN /\ Route(ev.intent, ctx) = "action_question"
       /\ ~r.raised
       /\ StateOf(r.ctx) = STATE_QUESTION_1
       /\ (DOMAIN ctx) \subseteq DOMAIN r.ctx
       /\ \A k \in (DOMAIN ctx) \ {CONTEXT_CURRENT_STATE} : r.ctx[k] = ctx[k]

\* C26 witness: /question was sent in state question_5 and restarted the flow
\* with the five keys of the abandoned question still in the context.
C26_Witness ==
  /\ last.kind = "user"
  /\ last.handler = "action_question"
  /\ StateOf(ctx) = STATE_QUESTION_1
  /\ \A k \in {CONTEXT_ASKED_QUESTION, CONTEXT_DESIRED_ANSWERER,
                CONTEXT_DESIRED_ANSWERER_REASON, CONTEXT_SENSITIVE_QUESTION,
                CONTEXT_ANONYMOUS_QUESTION} : has_static_state(ctx, k)

\* ------------------------------------------ the states that take any input

TurnsOf(ev) ==
  {Handle(Route(ev.intent, ctx), Here, ev, ok, FALSE, hasTasks, proposed) :
     ok \in BOOLEAN, hasTasks \in BOOLEAN, proposed \in Proposals}

\* The events that are neither a choice of the answerer, nor /question or
\* /question_first, nor a click.
OtherEvents ==
  {TextEvent(t) : t \in Texts}
    \cup {IntentEvent(NamedIntent(n)) :
            n \in NamedIntents \ (AnswererIntents \cup {INTENT_QUESTION, INTENT_QUESTION_FIRST})}

DesiredAnswerer(c) == get_static_state(c, CONTEXT_DESIRED_ANSWERER, None)

ReportIntents == {INTENT_QUESTION_REPORT, INTENT_ANSWER_REPORT}

ReasonIntents == {INTENT_REPORT_ABUSIVE, INTENT_REPORT_SPAM}

\* The turn made the one call create_task_transaction, for task t, with the
\* given label and attributes.
OneTransaction(l, t, label, attributes) ==
  /\ Len(l.calls) = 1
  /\ l.calls[1].op = "create_task_transaction"
  /\ l.calls[1].task_id = t
  /\ l.calls[1].label = label
  /\ l.calls[1].attributes = attributes

\* C29: the click of a report button offers the two reasons with the task and
\* the transaction_id (if any) of the payload of the report button, and calls
\* nothing; the click of a reason creates one transaction, labelled
\* reportQuestionTransaction with attributes {reason} when that payload has
\* no transaction_id and reportAnswerTransaction with attributes {reason,
\* transactionId} when it has one, reason being the intent of the clicked
\* reason; the click of best answer creates one transaction labelled
\* bestAnswerTransaction with attributes {transactionId}.
C29_ReportAndBestAnswerTransactions ==
  [][LET payload == last'.bp[1][1]
         intent == last'.bp[1][2]
         new == (DOMAIN cache') \ (DOMAIN cache)
     IN /\ (Hit(last') /\ intent \in ReportIntents) =>
             /\ last'.calls = <<>>
             /\ {cache'[k].intent : k \in new} = ReasonIntents
             /\ \A k \in new :
                  /\ cache'[k].payload.task_id = payload.task_id
                  /\ ("transaction_id" \in DOMAIN cache'[k].payload)
                       = ("transaction_id" \in DOMAIN payload)
                  /\ "transaction_id" \in DOMAIN payload =>
                       cache'[k].payload.transaction_id = payload.transaction_id
        /\ (Hit(last') /\ intent \in ReasonIntents) =>
             IF "transaction_id" \in DOMAIN payload
             THEN OneTransaction(last', payload.task_id, LABEL_REPORT_ANSWER_TRANSACTION,
                                 [reason |-> intent, transactionId |-> payload.transaction_id])
             ELSE OneTransaction(last', payload.task_id, LABEL_REPORT_QUESTION_TRANSACTION,
                                 [reason |-> intent])
        /\ (Hit(last') /\ intent = INTENT_BEST_ANSWER) =>
             OneTransaction(last', payload.task_id, LABEL_BEST_ANSWER_TRANSACTION,
                            [transactionId |-> payload.transaction_id])]_vars

\* C29 witness: the user reported an answer as spam and the task service took
\* the transaction reportAnswerTransaction with the reason and the id of the
\* answer's transaction.
C29_Witness ==
  /\ HitOf(last, INTENT_REPORT_SPAM)
  /\ OneTransaction(last, last.bp[1][1].task_id, LABEL_REPORT_ANSWER_TRANSACTION,
                    [reason |-> INTENT_REPORT_SPAM, transactionId |-> "tx1"])
  /\ last.calls[1].ok
  /\ last.out = <<"report_final_message">>

\* --------------------------------------------- what a consumed button removes

\* The related_buttons of a payload, none when it has no such entry.
RelatedButtons(payload) ==
  IF "related_buttons" \in DOMAIN payload THEN SeqRange(payload.related_buttons) ELSE {}

\* C30: a click that finds its button removes keys of the group of the button
\* alone: when the payload has no related_buttons the clicked key is the one
\* key removed, and in every case each entry of the cache that is neither the
\* clicked one nor named in the related_buttons of the clicked payload is in
\* the cache afterwards with its value.
C30_RemovesOwnGroupOnly ==
  [][Hit(last') =>
       LET payload == last'.bp[1][1]
           removed == (DOMAIN cache) \ (DOMAIN cache')
       IN /\ removed \subseteq groupOf[last'.key]
          /\ "related_buttons" \notin DOMAIN payload => removed = {last'.key}
          /\ \A k \in (DOMAIN cache) \ (RelatedButtons(payload) \cup {last'.key}) :
               /\ cache_has(cache', k)
               /\ cache_get(cache', k) = cache_get(cache, k)]_vars

\* C30 witness: the user picked one of the questions /answer proposed; its
\* button is gone and the buttons of two other proposals are still in the
\* cache.
C30_Witness ==
  /\ HitOf(last, INTENT_ANSWER_PICKED_QUESTION)
  /\ "related_buttons" \notin DOMAIN last.bp[1][1]
  /\ ~cache_has(cache, last.key)
  /\ Cardinality({k \in DOMAIN cache :
                    cache[k].intent = INTENT_ANSWER_PICKED_QUESTION}) >= 2

\* ------------------------------------------------------------ cancel_action

\* C31: after cancel_action, run in whatever state, current_state and every
\* key _clear_context lists are absent, the other keys are as they were, and
\* the turn has called neither create_task nor create_task_transaction.
C31_CancelLeavesIdle ==
  [][(last'.kind = "user" /\ last'.handler = "cancel_action") =>
       /\ ~has_static_state(ctx', CONTEXT_CURRENT_STATE)
       /\ \A k \in SeqRange(ContextToRemove) : ~has_static_state(ctx', k)
       /\ \A k \in (DOMAIN ctx) \ SeqRange(ContextToRemove) :
            has_static_state(ctx', k) /\ ctx'[k] = ctx[k]
       /\ last'.calls = <<>>
       /\ cache' = cache]_vars

\* C31 witness: the user cancelled in state answer_anonymously, right after
\* the text of the answer to a sensitive question: the text is still in the
\* context, the question to answer and current_state are gone.
C31_Witness ==
  /\ last.kind = "user"
  /\ last.handler = "cancel_action"
  /\ last.out = <<"cancel_text">>
  /\ scen.step = 2
  /\ has_static_state(ctx, CONTEXT_ANSWER_TO_QUESTION)
  /\ ~has_static_state(ctx, CONTEXT_QUESTION_TO_ANSWER)
  /\ ~has_static_state(ctx, CONTEXT_CURRENT_STATE)

\* -------------------------------------------------- a push to an idle user

\* C32: a push of the task service (a message or a textual message) that
\* finds the user without current_state sends no notice of interruption and
\* leaves every key of the context in place with its value.
C32_IdlePushKeepsContext ==
  [][(last'.kind = "push" /\ ~has_static_state(ctx, CONTEXT_CURRENT_STATE)) =>
       /\ \A i \in 1..Len(last'.sent) : last'.sent[i] # "message_from_wenet"
       /\ \A i \in 1..Len(last'.out) : last'.out[i] # "message_from_wenet"
       /\ \A k \in DOMAIN ctx : has_static_state(ctx', k) /\ ctx'[k] = ctx[k]]_vars

\* C32 witness: a textual message of the task service reached a user who was
\* idle after an answer to a sensitive question; it was delivered without a
\* notice and the text of that answer is still in the context.
C32_Witness ==
  /\ last.kind = "push"
  /\ last.handler = "handle_wenet_textual_message"
  /\ ~last.raised
  /\ last.sent = <<>>
  /\ Len(last.out) = 1
  /\ ~has_static_state(ctx, CONTEXT_CURRENT_STATE)
  /\ has_static_state(ctx, CONTEXT_ANSWER_TO_QUESTION)

\* ------------------------------------------ the keys of the answer states

AnswerStates == {STATE_ANSWERING, STATE_ANSWERING_SENSITIVE, STATE_ANSWERING_ANONYMOUSLY}

AnswerHandlers ==
  {"action_answer_question_2", "action_answer_sensitive_question",
   "action_answer_question_anonymously"}

\* C33: with turns taken one after the other, a context whose current_state
\* is answer_2, answer_sensitive or answer_anonymously holds
\* question_to_answer, one whose current_state is answer_anonymously holds
\* answer_to_question too, and no turn of the three answer handlers raises.
C33_AnswerStatesHaveKeys ==
  /\ StateOf(ctx) \in AnswerStates => has_static_state(ctx, CONTEXT_QUESTION_TO_ANSWER)
  /\ StateOf(ctx) = STATE_ANSWERING_ANONYMOUSLY =>
       has_static_state(ctx, CONTEXT_ANSWER_TO_QUESTION)
  /\ (last.kind = "user" /\ last.handler \in AnswerHandlers) => ~last.raised

\* C33 witness: the text of the answer to a sensitive question was taken
\* without an error and the context of state answer_anonymously holds the
\* question and the text.
C33_Witness ==
  /\ last.kind = "user"
  /\ last.handler = "action_answer_sensitive_question"
  /\ last.event = "text"
  /\ ~last.raised
  /\ StateOf(ctx) = STATE_ANSWERING_ANONYMOUSLY
  /\ has_static_state(ctx, CONTEXT_QUESTION_TO_ANSWER)
  /\ has_static_state(ctx, CONTEXT_ANSWER_TO_QUESTION)

\* ---------------------------------------- the keys of the question states

\* The keys the steps before state st have written.
KeysBefore(st) ==
  CASE st = STATE_QUESTION_2 -> {CONTEXT_ASKED_QUESTION}
    [] st = STATE_QUESTION_3 -> {CONTEXT_ASKED_QUESTION, CONTEXT_DESIRED_ANSWERER}
    [] st = STATE_QUESTION_4 ->
         {CONTEXT_ASKED_QUESTION, CONTEXT_DESIRED_ANSWERER, CONTEXT_DESIRED_ANSWERER_REASON}
    [] st \in {STATE_QUESTION_4_1, STATE_QUESTION_5} ->
         {CONTEXT_ASKED_QUESTION, CONTEXT_DESIRED_ANSWERER, CONTEXT_DESIRED_ANSWERER_REASON,
          CONTEXT_SENSITIVE_QUESTION}
    [] OTHER -> {}

\* C34: with turns taken one after the other, a context whose current_state
\* is question_5 holds asked_question, desired_answerer,
\* desired_answerer_reason and sensitive_question, each earlier state of the
\* question flow holds the keys of the steps before it, and no turn of
\* action_question_6 raises.
C34_QuestionStatesHaveKeys ==
  /\ \A k \in KeysBefore(StateOf(ctx)) : has_static_state(ctx, k)
  /\ (last.kind = "user" /\ last.handler = "action_question_6") => ~last.raised

\* C34 witness: the user, in state question_5 on the not-sensitive branch,
\* clicked a button of an earlier push; the button was found and the context
\* is still in question_5 with the four keys.
C34_Witness ==
  /\ StateOf(ctx) = STATE_QUESTION_5
  /\ \A k \in KeysBefore(STATE_QUESTION_5) : has_static_state(ctx, k)
  /\ ~has_static_state(ctx, CONTEXT_ANONYMOUS_QUESTION)
  /\ last.kind = "user"
  /\ last.handler = "handle_button_with_payload"
  /\ last.hit = "hit"

\* ------------------------------------------------- the edges of the flows

\* The states from which a turn can move to state st.
StatesBefore(st) ==
  CASE st = STATE_QUESTION_2 -> {STATE_QUESTION_1}
    [] st = STATE_QUESTION_3 -> {STATE_QUESTION_2}
    [] st = STATE_QUESTION_4 -> {STATE_QUESTION_3}
    [] st = STATE_QUESTION_4_1 -> {STATE_QUESTION_4}
    [] st = STATE_QUESTION_5 -> {STATE_QUESTION_4, STATE_QUESTION_4_1}
    [] st = STATE_ANSWERING_ANONYMOUSLY -> {STATE_ANSWERING_SENSITIVE}
    [] OTHER -> ActiveStatuses \cup {None}

\* C35: current_state becomes question_2 only in a turn that began in
\* question_1, question_3 only from question_2, question_4 only from
\* question_3, question_4_1 only from question_4, question_5 only from
\* question_4 or question_4_1, answer_anonymously only from answer_sensitive;
\* and it becomes answer_2 or answer_sensitive only in the turn of a click
\* that found an answer button or the button of a picked question.
C35_FlowEdges ==
  [][StateOf(ctx') # StateOf(ctx) =>
       /\ StateOf(ctx) \in StatesBefore(StateOf(ctx'))
       /\ StateOf(ctx') \in {STATE_ANSWERING, STATE_ANSWERING_SENSITIVE} =>
            /\ Hit(last')
            /\ last'.bp[1][2] \in {INTENT_ANSWER_QUESTION, INTENT_ANSWER_PICKED_QUESTION}]_vars

\* C35 witness: the user came to question_5 by the sensitive branch, through
\* question_4_1.
C35_Witness ==
  /\ last.kind = "user"
  /\ last.handler = "action_question_5"
  /\ StateOf(ctx) = STATE_QUESTION_5
  /\ get_static_state(ctx, CONTEXT_SENSITIVE_QUESTION, None) = INTENT_SENSITIVE_QUESTION
  /\ get_static_state(ctx, CONTEXT_ANONYMOUS_QUESTION, None) = INTENT_NOT_ANONYMOUS_QUESTION

\* --------------------------------------------------- one task for one flow

\* C36: a turn that calls create_task is a turn of the intent nearby or
\* anywhere that began in state question_5; it calls create_task once and
\* ends without current_state; and outside state question_5 the intents
\* nearby and anywhere create no task, so that repeating the click after the
\* flow ended creates none.
C36_OneTaskPerFlow ==
  /\ [](StateOf(ctx) # STATE_QUESTION_5 =>
          \A i \in PositionIntents : \A r \in TurnsOf(IntentEvent(NamedIntent(i))) :
            CreateTaskCalls(r.calls) = {})
  /\ [][CreateTaskCalls(last'.calls) # {} =>
          /\ StateOf(ctx) = STATE_QUESTION_5
          /\ last'.kind = "user"
          /\ last'.handler = "action_question_6"
          /\ last'.event = "named"
          /\ Len(last'.calls) = 1
          /\ last'.calls[1].attributes.positionOfAnswerer \in PositionIntents
          /\ ~has_static_state(ctx', CONTEXT_CURRENT_STATE)]_vars

\* C36 witness: the flow of the scenario has ended with the intent anywhere,
\* its one task was rejected by the task service and the user is idle.
C36_Witness ==
  /\ scen.step = 6
  /\ scen.tasks = 1
  /\ last.handler = "action_question_6"
  /\ last.calls[1].attributes.positionOfAnswerer = INTENT_ASK_TO_ANYWHERE
  /\ ~last.calls[1].ok
  /\ ~has_static_state(ctx, CONTEXT_CURRENT_STATE)

\* ------------------------------------- the text of an anonymous answer

\* C37: the transaction created in state answer_anonymously carries as its
\* answer the text the most recent turn of action_answer_sensitive_question
\* took, the one that led to this state, whatever text earlier flows that
\* ended, were given up or were interrupted have left in answer_to_question.
C37_AnswerTextOfThisFlow ==
  [][(last'.kind = "user" /\ last'.handler = "action_answer_question_anonymously") =>
       /\ StateOf(ctx) = STATE_ANSWERING_ANONYMOUSLY
       /\ Len(last'.calls) = 1
       /\ last'.calls[1].op = "create_task_transaction"
       /\ scen'.typed \in Texts
       /\ last'.calls[1].attributes.answer = scen'.typed]_vars

\* C37 witness: an answer was sent with the text t2, typed in this flow,
\* after a click on a button of another offer came between the text and the
\* choice; the buttons of both offers are used up.
C37_Witness ==
  /\ last.kind = "user"
  /\ last.handler = "action_answer_question_anonymously"
  /\ Len(last.calls) = 1
  /\ last.calls[1].attributes.answer = "t2"
  /\ scen.typed = "t2"
  /\ scen.step = 0
  /\ Cardinality(consumed) = 8

\* ------------------------------------- what the button actions do to a flow

\* The intents of the buttons whose actions leave the flows alone.
BystanderIntents ==
  {INTENT_ANSWER_NOT, INTENT_QUESTION_REPORT, INTENT_ANSWER_REPORT, INTENT_REPORT_ABUSIVE,
   INTENT_REPORT_SPAM, INTENT_BEST_ANSWER, INTENT_ANSWER_REMIND_LATER}

\* The results a click on the cached button k can have from here.
ClicksOf(k) ==
  {Handle("handle_button_with_payload", Here, IntentEvent(ButtonIntent(k)), ok, rnd,
          FALSE, <<>>) : ok \in BOOLEAN, rnd \in BOOLEAN}

\* C38: of the actions of the buttons, answer and picked answer set
\* current_state (to answer_2 or answer_sensitive) and more answers deletes
\* it; not answer, report, the reasons of a report, best answer and remind
\* later leave current_state and every key of the question flow as they are,
\* in whatever state the click is handled.
C38_ButtonActionsAndState ==
  \A k \in DOMAIN cache :
    Route(ButtonIntent(k), ctx) = "handle_button_with_payload" =>
      \A r \in ClicksOf(k) :
        LET intent == cache[k].intent
        IN /\ (intent \in {INTENT_ANSWER_QUESTION, INTENT_ANSWER_PICKED_QUESTION}
                 /\ ~r.raised) =>
                StateOf(r.ctx) = (IF PayloadSensitive(cache[k].payload)
                                  THEN STATE_ANSWERING_SENSITIVE ELSE STATE_ANSWERING)
           /\ intent = INTENT_ASK_MORE_ANSWERS =>
                ~has_static_state(r.ctx, CONTEXT_CURRENT_STATE)
           /\ intent \in BystanderIntents =>
                \A c \in SeqRange(QuestionKeys) :
                  /\ has_static_state(r.ctx, c) = has_static_state(ctx, c)
                  /\ has_static_state(ctx, c) => r.ctx[c] = ctx[c]

\* C38 witness: in state question_2 the user clicked the report button of an
\* answer; the question flow is where it was, with the question typed.
C38_Witness ==
  /\ HitOf(last, INTENT_ANSWER_REPORT)
  /\ StateOf(ctx) = STATE_QUESTION_2
  /\ has_static_state(ctx, CONTEXT_ASKED_QUESTION)

\* ---------------------------------------------- the flows come to their end

\* The number of turns of its flow after which the user is in state st; the
\* sensitive branch comes to question_5 one turn later.
TurnsAt(st, c) ==
  CASE st \in {STATE_QUESTION_1, STATE_ANSWERING, STATE_ANSWERING_SENSITIVE} -> 1
    [] st \in {STATE_QUESTION_2, STATE_ANSWERING_ANONYMOUSLY} -> 2
    [] st = STATE_QUESTION_3 -> 3
    [] st = STATE_QUESTION_4 -> 4
    [] st = STATE_QUESTION_4_1 -> 5
    [] st = STATE_QUESTION_5 ->
         IF get_static_state(c, CONTEXT_SENSITIVE_QUESTION, None) = INTENT_SENSITIVE_QUESTION
         THEN 6 ELSE 5
    [] OTHER -> 0

\* C39: when the user keeps supplying the input the current state accepts
\* and nothing comes in between, a flow that has begun comes back to idle:
\* the question flow with its sixth turn on the not-sensitive branch and its
\* seventh on the sensitive branch (/question counted), the answer flow with
\* its second turn for a question that is not sensitive and its third for a
\* sensitive one (the click counted), whether the task service accepts or
\* rejects what is created; before that turn the user is in the flow.
C39_FlowsTerminate ==
  /\ [](StateOf(ctx) \in ActiveStatuses => scen.step = TurnsAt(StateOf(ctx), ctx))
  /\ [][(StateOf(ctx) \in ActiveStatuses /\ StateOf(ctx') = None) =>
          /\ scen'.step = scen.step + 1
          /\ StateOf(ctx) \in {STATE_QUESTION_5, STATE_ANSWERING, STATE_ANSWERING_ANONYMOUSLY}
          /\ Len(last'.calls) = 1
          /\ last'.calls[1].op \in {"create_task", "create_task_transaction"}]_vars
  /\ (StateOf(ctx) \in ActiveStatuses) ~> (StateOf(ctx) = None)

\* C39 witness: a question flow on the sensitive branch has ended with its
\* seventh turn, the task service having rejected the task.
C39_Witness ==
  /\ last.kind = "user"
  /\ last.handler = "action_question_6"
  /\ scen.step = 7
  /\ last.calls[1].attributes.sensitive
  /\ ~last.calls[1].ok
  /\ StateOf(ctx) = None

====
